---- MODULE Spec2Model ----
(***************************************************************************)
(* Dialogue state machine and entity-extraction pipeline of the voice      *)
(* assistant (src/main.py, src/entity_extractor.py).                        *)
(*                                                                         *)
(* Utterances are real strings.  Python's str methods and the regular      *)
(* expressions of the source are operators over strings; a dict is a       *)
(* function whose DOMAIN is the set of keys present; Python's None is the   *)
(* value None.                                                             *)
(***************************************************************************)
EXTENDS Integers, Sequences, FiniteSets, TLC

VARIABLES
    today,      \* the calendar date datetime.now() falls on (fixed per run)
    sid,        \* session id the client sends with every turn (None: no id)
    ctx,        \* conversation context fed to the next turn
    memory,     \* the global memory: conversations and entities by session
    lastText,   \* utterance of the last turn
    inCtx,      \* context the last turn started from
    lastResult, \* the dict the last turn returned
    aiCalls,    \* slot lists the AI fallback was asked for in the last turn
    dbCalls,    \* persistence calls made in the last turn
    clock,      \* logical time of datetime.now()
    said        \* utterances since the conversation began (scripted runs)

vars == <<today, sid, ctx, memory, lastText, inCtx, lastResult, aiCalls,
          dbCalls, clock, said>>

\* application of an operator by its name, defined after the operators it applies
RECURSIVE Call(_, _)

(***************************************************************************)
(* Python values                                                           *)
(***************************************************************************)
None == "<None>"

\* Python truthiness of a str-or-None value
Truthy(v) == v # None /\ v # ""

\* dict.get(k) / dict.get(k, default)
Get(d, k) == IF k \in DOMAIN d THEN d[k] ELSE None

GetOr(d, k, dflt) == IF k \in DOMAIN d THEN d[k] ELSE dflt

\* d[k] = v
Put(d, k, v) == [x \in (DOMAIN d) \cup {k} |-> IF x = k THEN v ELSE d[x]]

\* d.pop(k, None)
Pop(d, k) == [x \in (DOMAIN d) \ {k} |-> d[x]]

\* {}
EmptyDict == [x \in {} |-> None]

\* "k in d and d[k]"
Has(d, k) == k \in DOMAIN d /\ Truthy(d[k])

(***************************************************************************)
(* Python str methods                                                      *)
(***************************************************************************)
UpperCase == "ABCDEFGHIJKLMNOPQRSTUVWXYZ"

LowerCase == "abcdefghijklmnopqrstuvwxyz"

Digits == "0123456789"

\* s[i-1:j] of Python, 1-based and inclusive; "" when the slice is empty
Sub(s, i, j) == IF i > j \/ i < 1 \/ j > Len(s) THEN "" ELSE SubSeq(s, i, j)

Char(s, i) == Sub(s, i, i)

CharSet(s) == {Char(s, i) : i \in 1..Len(s)}

UpperSet == CharSet(UpperCase)

LowerSet == CharSet(LowerCase)

DigitSet == CharSet(Digits)

IndexIn(alphabet, c) == CHOOSE i \in 1..Len(alphabet) : Char(alphabet, i) = c

LowerChar(c) ==
    IF c \in UpperSet THEN Char(LowerCase, IndexIn(UpperCase, c)) ELSE c

UpperChar(c) ==
    IF c \in LowerSet THEN Char(UpperCase, IndexIn(LowerCase, c)) ELSE c

RECURSIVE Lower(_)
\* str.lower()
Lower(s) == IF s = "" THEN "" ELSE LowerChar(Head(s)) \o Lower(Tail(s))

\* str.capitalize(): first character upper-cased, the rest lower-cased
Capitalize(s) == IF s = "" THEN "" ELSE UpperChar(Head(s)) \o Lower(Tail(s))

IsDigit(c) == c \in DigitSet

IsLetter(c) == c \in LowerSet \/ c \in UpperSet

IsLowerLetter(c) == c \in LowerSet

IsSpace(c) == c = " "

\* p occurs in s at position i
At(s, i, p) == i >= 1 /\ i + Len(p) - 1 <= Len(s) /\ Sub(s, i, i + Len(p) - 1) = p

\* "p in s"
Contains(s, p) == \E i \in 1..(Len(s) - Len(p) + 1) : At(s, i, p)

\* re.search(a + ".*" + b, s)
ContainsThen(s, a, b) ==
    \E i \in 1..Len(s) : At(s, i, a) /\ \E j \in (i + Len(a))..Len(s) : At(s, j, b)

StartsWith(s, p) == At(s, 1, p)

EndsWith(s, p) == Len(p) <= Len(s) /\ At(s, Len(s) - Len(p) + 1, p)

RECURSIVE LStrip(_)
LStrip(s) == IF s # "" /\ IsSpace(Head(s)) THEN LStrip(Tail(s)) ELSE s

RECURSIVE RStrip(_)
RStrip(s) ==
    IF s # "" /\ IsSpace(Char(s, Len(s))) THEN RStrip(Sub(s, 1, Len(s) - 1)) ELSE s

\* str.strip()
Strip(s) == RStrip(LStrip(s))

RECURSIVE SplitFrom(_, _, _)
SplitFrom(s, i, cur) ==
    IF i > Len(s) THEN (IF cur = "" THEN <<>> ELSE <<cur>>)
    ELSE IF IsSpace(Char(s, i))
         THEN (IF cur = "" THEN <<>> ELSE <<cur>>) \o SplitFrom(s, i + 1, "")
         ELSE SplitFrom(s, i + 1, cur \o Char(s, i))

\* str.split()
Split(s) == SplitFrom(s, 1, "")

RECURSIVE LetterRun(_, _)
\* length of the longest run of [a-z] starting at s[i]
LetterRun(s, i) ==
    IF i <= Len(s) /\ IsLowerLetter(Char(s, i)) THEN 1 + LetterRun(s, i + 1) ELSE 0

RECURSIVE DigitRun(_, _)
\* length of the longest run of \d starting at s[i]
DigitRun(s, i) ==
    IF i <= Len(s) /\ IsDigit(Char(s, i)) THEN 1 + DigitRun(s, i + 1) ELSE 0

RECURSIVE SpaceRun(_, _)
\* length of the longest run of \s starting at s[i]
SpaceRun(s, i) ==
    IF i <= Len(s) /\ IsSpace(Char(s, i)) THEN 1 + SpaceRun(s, i + 1) ELSE 0

RECURSIVE ToInt(_)
\* int(s) for a string of digits
ToInt(s) ==
    IF s = "" THEN 0
    ELSE 10 * ToInt(Sub(s, 1, Len(s) - 1)) + (IndexIn(Digits, Char(s, Len(s))) - 1)

\* f"{n:02d}"
Pad2(n) == IF n < 10 THEN "0" \o ToString(n) ELSE ToString(n)

InList(x, list) == \E i \in 1..Len(list) : list[i] = x

Range(list) == {list[i] : i \in 1..Len(list)}

(***************************************************************************)
(* datetime, timedelta, calendar: a date is [y, m, d]                      *)
(***************************************************************************)
IsLeap(y) == (y % 4 = 0 /\ y % 100 # 0) \/ y % 400 = 0

\* calendar.monthrange(y, m)[1]
DaysInMonth(y, m) ==
    IF m = 2 THEN (IF IsLeap(y) THEN 29 ELSE 28)
    ELSE IF m \in {4, 6, 9, 11} THEN 30 ELSE 31

\* date.toordinal(), counted from 1970-01-01
DayNum(dt) ==
    LET y   == IF dt.m <= 2 THEN dt.y - 1 ELSE dt.y
        era == y \div 400
        yoe == y - era * 400
        mp  == IF dt.m > 2 THEN dt.m - 3 ELSE dt.m + 9
        doy == (153 * mp + 2) \div 5 + dt.d - 1
        doe == yoe * 365 + yoe \div 4 - yoe \div 100 + doy
    IN  era * 146097 + doe - 719468

\* date.fromordinal()
DateOf(n) ==
    LET z   == n + 719468
        era == z \div 146097
        doe == z - era * 146097
        yoe == (doe - doe \div 1460 + doe \div 36524 - doe \div 146096) \div 365
        doy == doe - (365 * yoe + yoe \div 4 - yoe \div 100)
        mp  == (5 * doy + 2) \div 153
        dd  == doy - (153 * mp + 2) \div 5 + 1
        mm  == IF mp < 10 THEN mp + 3 ELSE mp - 9
        yy  == yoe + era * 400 + (IF mm <= 2 THEN 1 ELSE 0)
    IN  [y |-> yy, m |-> mm, d |-> dd]

\* dt + timedelta(days=n)
AddDays(dt, n) == Call("AddDays", <<dt, n>>)

AddDays_body(dt, n) == DateOf(DayNum(dt) + n)

\* dt + relativedelta(months=n): the day is clipped to the month's last day
AddMonths(dt, n) ==
    LET k  == (dt.m - 1) + n
        yy == dt.y + k \div 12
        mm == (k % 12) + 1
        dd == IF dt.d > DaysInMonth(yy, mm) THEN DaysInMonth(yy, mm) ELSE dt.d
    IN  [y |-> yy, m |-> mm, d |-> dd]

\* dt.weekday(): Monday is 0
Weekday(dt) == (DayNum(dt) + 3) % 7

DayNames == <<"Monday", "Tuesday", "Wednesday", "Thursday", "Friday", "Saturday", "Sunday">>

MonthNames == <<"January", "February", "March", "April", "May", "June", "July",
                "August", "September", "October", "November", "December">>

\* format_date_for_display: strftime("%A, %B %d, %Y")
format_date_for_display(dt) ==
    DayNames[Weekday(dt) + 1] \o ", " \o MonthNames[dt.m] \o " " \o Pad2(dt.d)
        \o ", " \o ToString(dt.y)

\* f"{year}-{month:02d}-{day:02d}"
IsoDate(y, m, d) == ToString(y) \o "-" \o Pad2(m) \o "-" \o Pad2(d)

\* the value of "no date" where a date record is expected
NoDate == [y |-> 0, m |-> 0, d |-> 0]

(***************************************************************************)
(* The days and the utterances explored.  The text functions the handlers  *)
(* call on the user's message are worked out once for them (the tables).   *)
(***************************************************************************)
\* datetime.now() falls on one of NumTodays consecutive days from BaseDay,
\* a Tuesday whose tomorrow is the last day of the year
NumTodays == 2

BaseDay == [y |-> 2025, m |-> 12, d |-> 30]

Todays == {AddDays(BaseDay, k) : k \in 0..(NumTodays - 1)}

\* what the user says
Vocabulary ==
    {"", "John", "tomorrow", "3pm", "yes", "ok", "no", "2:00 pm works",
     "yes, at 4pm", "I need to see a doctor", "whenever he is available",
     "what's his availability", "cancel my appointment", "show my appointments",
     "give me a summary", "what is a neural network", "could you help me out here",
     "cancel it", "cancel this appointment", "Mary",
     "please, I need to see a doctor"}

\* the scripted conversation runs on any of NumHappyDays consecutive days
NumHappyDays == 14

HappyDays == {AddDays(BaseDay, k) : k \in 0..(NumHappyDays - 1)}

Script == <<"John", "tomorrow", "3pm", "yes">>

Days == Todays \cup HappyDays

Utterances(now) == IF now \in Todays THEN Vocabulary ELSE Range(Script)

\* the values of a function, worked out once
Tabulated(f) == f @@ EmptyDict

(***************************************************************************)
(* entity_extractor.identify_intent                                        *)
(***************************************************************************)
\* a pattern is [a, b]: the regex a.*b when b is not empty, else the literal a
Lit(a) == [a |-> a, b |-> ""]

Gap(a, b) == [a |-> a, b |-> b]

\* any(re.search(pattern, text) for pattern in patterns)
MatchAny(text, patterns) ==
    \E i \in 1..Len(patterns) :
        IF patterns[i].b = "" THEN Contains(text, patterns[i].a)
        ELSE ContainsThen(text, patterns[i].a, patterns[i].b)

schedule_patterns == <<
    Lit("schedule a appointment"), Lit("schedule an appointment"),
    Lit("book a appointment"), Lit("book an appointment"),
    Lit("make a appointment"), Lit("make an appointment"),
    Lit("set up a appointment"), Lit("set up an appointment"),
    Lit("create a appointment"), Lit("create an appointment"),
    Lit("schedule a meeting"),
    Gap("schedule ", " with"), Gap("book ", " with"), Gap("make ", " with"),
    Gap("schedule ", " for"), Gap("book ", " for"), Gap("make ", " for") >>

cancel_patterns == <<
    Lit("cancel a appointment"), Lit("cancel an appointment"),
    Gap("cancel ", " meeting"), Gap("cancel ", " with"),
    Lit("remove a appointment"), Lit("remove an appointment"),
    Lit("delete a appointment"), Lit("delete an appointment"),
    Lit("wanto cancel"), Lit("want to cancel"), Lit("need to cancel"),
    Lit("dont want the appointment"), Lit("don't want the appointment") >>

check_availability_patterns == <<
    Lit("check availability"), Lit("check availibility"),
    Gap("when ", " available"), Lit("what times are available"),
    Lit("available times"), Gap("is ", " available"), Gap("can ", " meet"),
    Lit("availability of"), Lit("availibility of"),
    Gap("when can ", " meet"), Lit("check when"),
    Gap("not schedule ", " check") >>

list_appointments_patterns == <<
    Lit("list appointments"), Lit("show appointments"), Lit("what appointments"),
    Lit("my appointments"), Lit("my schedule"), Gap("view ", " appointments") >>

knowledge_patterns == <<
    Lit("what is"), Lit("what are"), Lit("who is"), Lit("who are"),
    Lit("how does"), Lit("how do"), Lit("explain"), Lit("tell me about"),
    Lit("when was"), Lit("when is"), Lit("where is"), Lit("where are"),
    Lit("why is"), Lit("why are"), Lit("define"), Lit("definition"),
    Lit("defination"), Lit("meaning of"), Lit("what does"), Lit("tell me more"),
    Lit("can you explain") >>

identify_intent(text0) == Call("identify_intent", <<text0>>)

\* identify_intent with the scheduling patterns tried first
identify_intent_schedule_first(text0) ==
    LET text == Lower(text0)
    IN  IF MatchAny(text, schedule_patterns) THEN "schedule_appointment"
        ELSE IF MatchAny(text, knowledge_patterns) THEN "knowledge"
        ELSE IF MatchAny(text, check_availability_patterns) THEN "check_availability"
        ELSE IF MatchAny(text, cancel_patterns) THEN "cancel_appointment"
        ELSE IF MatchAny(text, list_appointments_patterns) THEN "list_appointments"
        ELSE "unknown"

identify_intent_body(text0) ==
    LET text == Lower(text0)
    IN  IF MatchAny(text, knowledge_patterns) THEN "knowledge"
        ELSE IF MatchAny(text, check_availability_patterns) THEN "check_availability"
        ELSE IF MatchAny(text, cancel_patterns) THEN "cancel_appointment"
        ELSE IF MatchAny(text, schedule_patterns) THEN "schedule_appointment"
        ELSE IF MatchAny(text, list_appointments_patterns) THEN "list_appointments"
        ELSE "unknown"

identify_intent_table == Tabulated([text \in Vocabulary |-> identify_intent(text)])


AppointmentIntents ==
    {"schedule_appointment", "cancel_appointment", "check_availability", "list_appointments"}

(***************************************************************************)
(* main.check_if_summary_requested                                         *)
(***************************************************************************)
summary_patterns ==
    {a \o " summary" : a \in {"conversation", "chat"}}
    \cup {"summarize " \o a \o " " \o b :
            a \in {"our", "this"}, b \in {"conversation", "chat", "discussion"}}
    \cup {"give me a summary"}
    \cup {"what have we " \o a \o " " : a \in {"talked", "discussed"}}
    \cup {"recap " \o a \o " " \o b : a \in {"our", "this"}, b \in {"conversation", "chat"}}
    \cup {"sum" \o a \o "up " \o b \o " " \o c :
            a \in {" ", ""}, b \in {"our", "this", "the"},
            c \in {"conversation", "chat", "discussion"}}

check_if_summary_requested(text) ==
    \E p \in summary_patterns : Contains(Lower(text), p)

check_if_summary_requested_table == Tabulated([text \in Vocabulary |-> check_if_summary_requested(text)])


(***************************************************************************)
(* EntityExtractor._extract_time                                           *)
(***************************************************************************)
Min(a, b) == IF a < b THEN a ELSE b

\* s[i:i+n] is n digits
DigitsAt(s, i, n) == Call("DigitsAt", <<s, i, n>>)

DigitsAt_body(s, i, n) == i + n - 1 <= Len(s) /\ \A k \in i..(i + n - 1) : IsDigit(Char(s, k))

\* (am|pm|a\.m\.|p\.m\.) at s[i]; "" when none
PeriodAt(s, i) ==
    IF At(s, i, "am") THEN "am"
    ELSE IF At(s, i, "pm") THEN "pm"
    ELSE IF At(s, i, "a.m.") THEN "a.m."
    ELSE IF At(s, i, "p.m.") THEN "p.m."
    ELSE ""

NoTime == [hour |-> -1, minute |-> -1, period |-> ""]

\* one way of matching (\d{1,2})[seps]?(\d{2})?\s*(period) at s[i]: n hour
\* digits, with or without the separator, with or without the minutes
TimeTry(s, i, n, seps, sep, min) == Call("TimeTry", <<s, i, n, seps, sep, min>>)

TimeTry_body(s, i, n, seps, sep, min) ==
    LET a == i + n
        b == a + (IF sep THEN 1 ELSE 0)
        c == b + (IF min THEN 2 ELSE 0)
        d == c + SpaceRun(s, c)
    IN  IF /\ DigitsAt(s, i, n)
           /\ sep => (a <= Len(s) /\ Char(s, a) \in seps)
           /\ min => DigitsAt(s, b, 2)
        THEN [hour |-> ToInt(Sub(s, i, a - 1)),
              minute |-> IF min THEN ToInt(Sub(s, b, b + 1)) ELSE 0,
              period |-> PeriodAt(s, d)]
        ELSE NoTime

\* the regex engine's order of attempts: greedy quantifiers first
TimeTries == << <<2, TRUE, TRUE>>, <<2, TRUE, FALSE>>, <<2, FALSE, TRUE>>, <<2, FALSE, FALSE>>,
                <<1, TRUE, TRUE>>, <<1, TRUE, FALSE>>, <<1, FALSE, TRUE>>, <<1, FALSE, FALSE>> >>

\* the match of hour12_pattern that starts at s[i]
Hour12At(s, i) == Call("Hour12At", <<s, i>>)

Hour12At_body(s, i) ==
    LET try(k) == TimeTry(s, i, TimeTries[k][1], {":", ".", "h"}, TimeTries[k][2], TimeTries[k][3])
        ok == {k \in 1..Len(TimeTries) : try(k).period # ""}
    IN  IF ok = {} THEN NoTime ELSE try(CHOOSE k \in ok : \A j \in ok : k <= j)

\* re.search(hour12_pattern, s): the leftmost match
Hour12Search(s) ==
    LET ok == {i \in 1..Len(s) : Hour12At(s, i) # NoTime}
    IN  IF ok = {} THEN NoTime ELSE Hour12At(s, CHOOSE i \in ok : \A j \in ok : i <= j)

\* the match of simple_hour_pattern (\d{1,2})\s*(period) that starts at s[i]
SimpleHourAt(s, i) ==
    LET t2 == TimeTry(s, i, 2, {}, FALSE, FALSE)
        t1 == TimeTry(s, i, 1, {}, FALSE, FALSE)
    IN  IF t2.period # "" THEN t2 ELSE IF t1.period # "" THEN t1 ELSE NoTime

SimpleHourSearch(s) ==
    LET ok == {i \in 1..Len(s) : SimpleHourAt(s, i) # NoTime}
    IN  IF ok = {} THEN NoTime ELSE SimpleHourAt(s, CHOOSE i \in ok : \A j \in ok : i <= j)

\* To24 without the twelve hours of the afternoon
To24_keeps_pm(hour, period) ==
    IF StartsWith(period, "a") /\ hour = 12 THEN 0 ELSE hour

\* 12-hour to 24-hour: pm below 12 adds 12, 12 am is 0
To24(hour, period) ==
    IF StartsWith(period, "p") /\ hour < 12 THEN hour + 12
    ELSE IF StartsWith(period, "a") /\ hour = 12 THEN 0
    ELSE hour

_extract_time(text) == Call("_extract_time", <<text>>)

_extract_time_body(text) ==
    LET s  == Lower(text)
        m1 == Hour12Search(s)
        m2 == SimpleHourSearch(s)
    IN  IF m1 # NoTime /\ 1 <= m1.hour /\ m1.hour <= 12 /\ 0 <= m1.minute /\ m1.minute <= 59
        THEN Pad2(To24(m1.hour, m1.period)) \o ":" \o Pad2(m1.minute)
        ELSE IF m2 # NoTime /\ 1 <= m2.hour /\ m2.hour <= 12
        THEN Pad2(To24(m2.hour, m2.period)) \o ":00"
        ELSE None



(***************************************************************************)
(* EntityExtractor._extract_date                                           *)
(***************************************************************************)
months == <<"january", "february", "march", "april", "may", "june",
            "july", "august", "september", "october", "november", "december">>

month_abbr == <<"jan", "feb", "mar", "apr", "may", "jun",
                "jul", "aug", "sep", "oct", "nov", "dec">>

\* (st|nd|rd|th)? at s[i]: the characters it takes
SuffixLen(s, i) == IF \E x \in {"st", "nd", "rd", "th"} : At(s, i, x) THEN 2 ELSE 0

NoDay == [day |-> -1, year |-> ""]

\* month \s+ (\d{1,2}) (st|nd|rd|th)? [ (?:,|\s) \s* (\d{4}) ] starting at s[i]
MonthDayAt(s, i, month, withYear) == Call("MonthDayAt", <<s, i, month, withYear>>)

MonthDayAt_body(s, i, month, withYear) ==
    LET sp == SpaceRun(s, i + Len(month))
        j  == i + Len(month) + sp
        n  == Min(2, DigitRun(s, j))
        k  == j + n + SuffixLen(s, j + n)
        q  == k + 1 + SpaceRun(s, k + 1)
    IN  IF At(s, i, month) /\ sp >= 1 /\ n >= 1
           /\ (withYear => (k <= Len(s) /\ Char(s, k) \in {",", " "} /\ DigitsAt(s, q, 4)))
        THEN [day |-> ToInt(Sub(s, j, j + n - 1)),
              year |-> IF withYear THEN Sub(s, q, q + 3) ELSE ""]
        ELSE NoDay

\* (\d{1,2}) (st|nd|rd|th)? \s+ (?:of\s+)? month [ (?:,|\s) \s* (\d{4}) ] at s[i]
DayMonthAt(s, i, month, withYear) == Call("DayMonthAt", <<s, i, month, withYear>>)

DayMonthAt_body(s, i, month, withYear) ==
    LET n   == IF DigitsAt(s, i, 2) THEN 2 ELSE 1
        k   == i + n + SuffixLen(s, i + n)
        sp  == SpaceRun(s, k)
        k2  == k + sp
        k3  == IF At(s, k2, "of") /\ SpaceRun(s, k2 + 2) >= 1
               THEN k2 + 2 + SpaceRun(s, k2 + 2) ELSE k2
        e   == k3 + Len(month)
        q   == e + 1 + SpaceRun(s, e + 1)
    IN  IF DigitsAt(s, i, 1) /\ sp >= 1 /\ At(s, k3, month)
           /\ (withYear => (e <= Len(s) /\ Char(s, e) \in {",", " "} /\ DigitsAt(s, q, 4)))
        THEN [day |-> ToInt(Sub(s, i, i + n - 1)),
              year |-> IF withYear THEN Sub(s, q, q + 3) ELSE ""]
        ELSE NoDay

\* re.search of one of the four date patterns: the leftmost match
DateSearch(s, month, dayFirst, withYear) ==
    LET at(i) == IF dayFirst THEN DayMonthAt(s, i, month, withYear)
                 ELSE MonthDayAt(s, i, month, withYear)
        ok == {i \in 1..Len(s) : at(i) # NoDay}
    IN  IF ok = {} THEN NoDay ELSE at(CHOOSE i \in ok : \A j \in ok : i <= j)

\* one iteration of the loop over months + month_abbr: pattern1..pattern4
DateForMonth(s, month, month_idx, curr_year) == Call("DateForMonth", <<s, month, month_idx, curr_year>>)

DateForMonth_body(s, month, month_idx, curr_year) ==
    LET m1 == DateSearch(s, month, FALSE, TRUE)
        m2 == DateSearch(s, month, TRUE, TRUE)
        m3 == DateSearch(s, month, FALSE, FALSE)
        m4 == DateSearch(s, month, TRUE, FALSE)
    IN  IF m1 # NoDay /\ m1.day <= 31 THEN m1.year \o "-" \o Pad2(month_idx) \o "-" \o Pad2(m1.day)
        ELSE IF m2 # NoDay /\ m2.day <= 31 THEN m2.year \o "-" \o Pad2(month_idx) \o "-" \o Pad2(m2.day)
        ELSE IF m3 # NoDay /\ m3.day <= 31 THEN IsoDate(curr_year, month_idx, m3.day)
        ELSE IF m4 # NoDay /\ m4.day <= 31 THEN IsoDate(curr_year, month_idx, m4.day)
        ELSE None

_extract_date(text, now) == Call("_extract_date", <<text, now>>)

_extract_date_body(text, now) ==
    LET s     == Lower(text)
        names == months \o month_abbr
        r(k)  == DateForMonth(s, names[k], ((k - 1) % 12) + 1, now.y)
        ok    == {k \in 1..Len(names) : r(k) # None}
    IN  IF ok = {} THEN None ELSE r(CHOOSE k \in ok : \A j \in ok : k <= j)

(***************************************************************************)
(* EntityExtractor.extract_entities                                        *)
(***************************************************************************)
temporal_words ==
    {"next", "last", "this", "tomorrow", "today", "yesterday",
     "monday", "tuesday", "wednesday", "thursday", "friday", "saturday", "sunday",
     "january", "february", "march", "april", "may", "june",
     "july", "august", "september", "october", "november", "december",
     "week", "month", "year", "am", "pm", "morning", "afternoon", "evening", "night"}

stop_words ==
    {"with", "for", "at", "on", "in", "the", "and", "or", "but", "because", "as",
     "hi", "hello", "hey", "can", "could", "would", "will", "shall", "must", "should",
     "may", "might", "do", "does", "did", "has", "have", "had", "is", "am", "are",
     "was", "were", "be", "been", "being", "you", "your", "me", "my", "i", "we", "us",
     "please", "thanks", "thank", "want", "need", "like", "help", "an", "a", "to", "from",
     "by", "of", "it", "its", "they", "their", "them", "there", "here", "where", "when", "how"}

domain_specific_words ==
    {"appointment", "schedule", "book", "make", "set", "get", "find",
     "check", "show", "list", "cancel", "reschedule", "time", "date",
     "meeting", "consultation", "session", "visit", "call", "talk",
     "availability", "availibility", "available", "free", "busy", "slot", "opening"}

\* "w not in stop_words and w not in temporal_words and w not in domain_specific_words"
NameWord(w) == w \notin stop_words /\ w \notin temporal_words /\ w \notin domain_specific_words

titles == {"dr", "mr", "mrs", "ms", "miss", "prof"}

NoName == [title |-> "", first |-> "", last |-> ""]

\* kw \s+ ((?:dr|mr|mrs|ms|miss|prof)\.?\s+)? ([a-z][a-z]+) (?:\s+([a-z][a-z]+))?
\* starting at s[i], s lower-cased
NameAt(s, i, kw) == Call("NameAt", <<s, i, kw>>)

NameAt_body(s, i, kw) ==
    LET sp   == SpaceRun(s, i + Len(kw))
        j    == i + Len(kw) + sp
        n1   == LetterRun(s, j)
        w1   == Sub(s, j, j + n1 - 1)
        dot  == IF At(s, j + n1, ".") THEN 1 ELSE 0
        tsp  == SpaceRun(s, j + n1 + dot)
        f    == j + n1 + dot + tsp
        titled == w1 \in titles /\ tsp >= 1 /\ LetterRun(s, f) >= 2
        fs   == IF titled THEN f ELSE j
        fn   == LetterRun(s, fs)
        lsp  == SpaceRun(s, fs + fn)
        ls   == fs + fn + lsp
        ln   == IF lsp >= 1 /\ LetterRun(s, ls) >= 2 THEN LetterRun(s, ls) ELSE 0
    IN  IF At(s, i, kw) /\ sp >= 1 /\ n1 >= 2
        THEN [title |-> IF titled THEN Sub(s, j, f - 1) ELSE "",
              first |-> Sub(s, fs, fs + fn - 1),
              last  |-> Sub(s, ls, ls + ln - 1)]
        ELSE NoName

\* re.search of the name pattern for the keywords kws: the leftmost match
NameSearch(s, kws) ==
    LET at(i) == IF \E kw \in kws : NameAt(s, i, kw) # NoName
                 THEN NameAt(s, i, CHOOSE kw \in kws : NameAt(s, i, kw) # NoName)
                 ELSE NoName
        ok == {i \in 1..Len(s) : at(i) # NoName}
    IN  IF ok = {} THEN NoName ELSE at(CHOOSE i \in ok : \A j \in ok : i <= j)

\* the name_parts built from one match; None when the first name is a common word
NameFrom(m) == Call("NameFrom", <<m>>)

NameFrom_body(m) ==
    IF m = NoName \/ ~NameWord(m.first) THEN None
    ELSE (IF m.title # "" THEN Capitalize(Strip(m.title)) \o " " ELSE "")
         \o Capitalize(m.first)
         \o (IF m.last # "" /\ NameWord(m.last) THEN " " \o Capitalize(m.last) ELSE "")

\* the last resort: the first word that is no common word, number or ordinal
FirstNameWord(words) ==
    LET ok == {k \in 1..Len(words) :
                 /\ NameWord(Lower(words[k]))
                 /\ ~IsDigit(Char(words[k], 1))
                 /\ ~EndsWith(Lower(words[k]), "th")
                 /\ ~EndsWith(Lower(words[k]), "rd")
                 /\ ~EndsWith(Lower(words[k]), "st")}
    IN  IF ok = {} THEN None ELSE Capitalize(words[CHOOSE k \in ok : \A j \in ok : k <= j])

Entities(person, date, time) == [person |-> person, date |-> date, time |-> time]

extractor_extract_entities(text, now) == Call("extractor_extract_entities", <<text, now>>)

extractor_extract_entities_body(text, now) ==
    LET text_lower == Lower(text)
        words == Split(text)
        p_of   == NameFrom(NameSearch(text_lower, {"of", "for"}))
        p_with == NameFrom(NameSearch(text_lower, {"with"}))
        p_for  == NameFrom(NameSearch(text_lower, {"for"}))
        p_see  == NameFrom(NameSearch(text_lower, {"see"}))
        person ==
            IF Len(words) = 1 /\ NameWord(Lower(words[1])) THEN Capitalize(words[1])
            ELSE IF Truthy(p_of) THEN p_of
            ELSE IF Truthy(p_with) THEN p_with
            ELSE IF Truthy(p_for) THEN p_for
            ELSE IF Truthy(p_see) THEN p_see
            ELSE FirstNameWord(words)
    IN  Entities(person, _extract_date(text, now), _extract_time(text))

(***************************************************************************)
(* main.parse_relative_date                                                *)
(***************************************************************************)
\* \w
IsWordChar(c) == Call("IsWordChar", <<c>>)

IsWordChar_body(c) == IsLetter(c) \/ IsDigit(c) \/ c = "_"

\* re.search(rf"\b{w}\b", s)
ContainsWord(s, w) ==
    \E i \in 1..Len(s) :
        /\ At(s, i, w)
        /\ (i = 1 \/ ~IsWordChar(Char(s, i - 1)))
        /\ (i + Len(w) > Len(s) \/ ~IsWordChar(Char(s, i + Len(w))))

\* re.search(a + r"\s+" + b, s)
ContainsSpaced(s, a, b) == Call("ContainsSpaced", <<s, a, b>>)

ContainsSpaced_body(s, a, b) ==
    \E i \in 1..Len(s) :
        At(s, i, a) /\ SpaceRun(s, i + Len(a)) >= 1
                    /\ At(s, i + Len(a) + SpaceRun(s, i + Len(a)), b)

days_of_week == <<"monday", "tuesday", "wednesday", "thursday", "friday", "saturday", "sunday">>

\* "next <weekday>" without the step to the week after
NextWeekday_keeps_today(now, day_num) == AddDays(now, (day_num - Weekday(now)) % 7)

\* "next <weekday>": a future occurrence, 7 days on when the offset is 0
NextWeekday(now, day_num) ==
    LET days_ahead == (day_num - Weekday(now)) % 7
    IN  AddDays(now, IF days_ahead = 0 THEN 7 ELSE days_ahead)

\* "this <weekday>" and a bare weekday taken a week on when the offset is 0
ThisWeekday_skips_today(now, day_num) ==
    AddDays(now, IF (day_num - Weekday(now)) % 7 = 0 THEN 7 ELSE (day_num - Weekday(now)) % 7)

\* "this <weekday>" and a bare weekday: today when the offset is 0
ThisWeekday(now, day_num) == AddDays(now, (day_num - Weekday(now)) % 7)

\* the loop over days_of_week: the first weekday of the week named in the text
WeekdayDate(s, now) ==
    LET hit(k) == \/ ContainsSpaced(s, "next", days_of_week[k])
                  \/ ContainsSpaced(s, "this", days_of_week[k])
                  \/ ContainsWord(s, days_of_week[k])
        ok == {k \in 1..7 : hit(k)}
        k0 == CHOOSE k \in ok : \A j \in ok : k <= j
    IN  IF ok = {} THEN NoDate
        ELSE IF ContainsSpaced(s, "next", days_of_week[k0]) THEN NextWeekday(now, k0 - 1)
        ELSE ThisWeekday(now, k0 - 1)

NoOffset == [number |-> -1, unit |-> "", rest |-> ""]

\* (day|days|week|weeks|month|months) at s[i]: the first alternative that fits
UnitAt(s, i) ==
    IF At(s, i, "day") THEN "day"
    ELSE IF At(s, i, "week") THEN "week"
    ELSE IF At(s, i, "month") THEN "month"
    ELSE ""

\* lead \s+ (\d+) \s+ (unit) tail, starting at s[i]; lead may be empty, and
\* tail is a sequence of words each preceded by \s+
OffsetAt(s, i, lead, tail) == Call("OffsetAt", <<s, i, lead, tail>>)

OffsetAt_body(s, i, lead, tail) ==
    LET sp0 == IF lead = "" THEN 0 ELSE SpaceRun(s, i + Len(lead))
        j   == i + Len(lead) + sp0
        n   == DigitRun(s, j)
        sp1 == SpaceRun(s, j + n)
        u   == j + n + sp1
        unit == UnitAt(s, u)
        \* "days" is matched as "day": the plural s is then not consumed
        e0  == u + Len(unit)
        e(plural) == e0 + (IF plural THEN 1 ELSE 0)
        tailOk(from) ==
            IF Len(tail) = 0 THEN TRUE
            ELSE LET t1 == from + SpaceRun(s, from)
                 IN  /\ SpaceRun(s, from) >= 1 /\ At(s, t1, tail[1])
                     /\ (Len(tail) = 1 \/
                          LET t2 == t1 + Len(tail[1]) + SpaceRun(s, t1 + Len(tail[1]))
                          IN  SpaceRun(s, t1 + Len(tail[1])) >= 1 /\ At(s, t2, tail[2]))
        plural == ~tailOk(e0) /\ At(s, e0, "s") /\ tailOk(e0 + 1)
        endOf(from) ==
            IF Len(tail) = 0 THEN from
            ELSE LET t1 == from + SpaceRun(s, from) + Len(tail[1])
                 IN  IF Len(tail) = 1 THEN t1
                     ELSE t1 + SpaceRun(s, t1) + Len(tail[2])
    IN  IF /\ At(s, i, lead) /\ (lead = "" \/ sp0 >= 1) /\ n >= 1 /\ sp1 >= 1
           /\ unit # "" /\ (tailOk(e0) \/ plural)
        THEN [number |-> ToInt(Sub(s, j, j + n - 1)), unit |-> unit,
              rest |-> Sub(s, endOf(e(plural)), Len(s))]
        ELSE NoOffset

OffsetSearch(s, lead, tail) ==
    LET ok == {i \in 1..Len(s) : OffsetAt(s, i, lead, tail) # NoOffset}
    IN  IF ok = {} THEN NoOffset
        ELSE OffsetAt(s, CHOOSE i \in ok : \A j \in ok : i <= j, lead, tail)

\* base + timedelta(days=n) / timedelta(days=7n) / relativedelta(months=n)
AddOffset(base, off) ==
    IF off.unit = "day" THEN AddDays(base, off.number)
    ELSE IF off.unit = "week" THEN AddDays(base, off.number * 7)
    ELSE AddMonths(base, off.number)

\* dateutil.parser.parse(date_str, fuzzy=True) for the base expressions the
\* model feeds it: a month name with a day, read in the current year; any
\* other string raises, which the caller turns into None
dateutil_parse(date_str, now) ==
    LET iso == _extract_date(date_str, now)
    IN  IF iso = None THEN NoDate
        ELSE [y |-> ToInt(Sub(iso, 1, 4)), m |-> ToInt(Sub(iso, 6, 7)),
              d |-> ToInt(Sub(iso, 9, 10))]

NextMonthStart(now) ==
    IF now.m + 1 > 12 THEN [y |-> now.y + 1, m |-> 1, d |-> 1]
    ELSE [y |-> now.y, m |-> now.m + 1, d |-> 1]

parse_relative_date(text0, now) == Call("parse_relative_date", <<text0, now>>)

parse_relative_date_body(text0, now) ==
    LET text == Lower(text0)
        wd == WeekdayDate(text, now)
        o_in    == OffsetSearch(text, "in", <<>>)
        o_after == OffsetSearch(text, "after", <<>>)
        o_now   == OffsetSearch(text, "", <<"from", "now">>)
        o_from  == OffsetSearch(text, "", <<"from">>)
        \* (.+) after "from\s+": at least one character must remain
        fromOk  == o_from # NoOffset /\ o_from.rest # ""
        base    == dateutil_parse(Strip(o_from.rest), now)
        nms     == NextMonthStart(now)
    IN  IF Contains(text, "tomorrow") THEN AddDays(now, 1)
        ELSE IF Contains(text, "today") THEN now
        ELSE IF Contains(text, "yesterday") THEN AddDays(now, -1)
        ELSE IF wd # NoDate THEN wd
        ELSE IF o_in # NoOffset THEN AddOffset(now, o_in)
        ELSE IF o_after # NoOffset THEN AddOffset(now, o_after)
        ELSE IF o_now # NoOffset THEN AddOffset(now, o_now)
        ELSE IF fromOk THEN (IF base = NoDate THEN NoDate ELSE AddOffset(base, o_from))
        ELSE IF Contains(text, "end of month")
             THEN [y |-> now.y, m |-> now.m, d |-> DaysInMonth(now.y, now.m)]
        ELSE IF Contains(text, "beginning of month") \/ Contains(text, "start of month")
             THEN [y |-> now.y, m |-> now.m, d |-> 1]
        ELSE IF Contains(text, "end of next month")
             THEN [y |-> nms.y, m |-> nms.m, d |-> DaysInMonth(nms.y, nms.m)]
        ELSE IF Contains(text, "beginning of next month") \/ Contains(text, "start of next month")
             THEN nms
        ELSE NoDate



(***************************************************************************)
(* main.enhance_entity_extraction, main.extract_entities                   *)
(***************************************************************************)
\* one of the four date_patterns of the fallback: the leftmost match over the
\* month alternation, as [day, month number]; day -1 when there is none
FallbackSearch(s, names, dayFirst) == Call("FallbackSearch", <<s, names, dayFirst>>)

FallbackSearch_body(s, names, dayFirst) ==
    LET at(i, k) == IF dayFirst THEN DayMonthAt(s, i, names[k], FALSE)
                    ELSE MonthDayAt(s, i, names[k], FALSE)
        ok == {i \in 1..Len(s) : \E k \in 1..12 : at(i, k) # NoDay}
        i0 == CHOOSE i \in ok : \A j \in ok : i <= j
        k0 == CHOOSE k \in 1..12 : at(i0, k) # NoDay /\ \A j \in 1..12 : at(i0, j) # NoDay => k <= j
    IN  IF ok = {} THEN [day |-> -1, month |-> 0] ELSE [day |-> at(i0, k0).day, month |-> k0]

\* the loop over date_patterns: the first pattern whose match has a day in 1..31
FallbackDate(s, curr_year) ==
    LET tries == << FallbackSearch(s, months, TRUE), FallbackSearch(s, months, FALSE),
                    FallbackSearch(s, month_abbr, TRUE), FallbackSearch(s, month_abbr, FALSE) >>
        ok == {k \in 1..4 : 1 <= tries[k].day /\ tries[k].day <= 31}
        k0 == CHOOSE k \in ok : \A j \in ok : k <= j
    IN  IF ok = {} THEN None ELSE IsoDate(curr_year, tries[k0].month, tries[k0].day)

\* re.search(r'\b(20\d{2})\b', text): the year found, "" when none
YearSearch(s) ==
    LET ok == {i \in 1..Len(s) :
                 /\ At(s, i, "20") /\ DigitsAt(s, i + 2, 2)
                 /\ (i = 1 \/ ~IsWordChar(Char(s, i - 1)))
                 /\ (i + 4 > Len(s) \/ ~IsWordChar(Char(s, i + 4)))}
    IN  IF ok = {} THEN "" ELSE Sub(s, CHOOSE i \in ok : \A j \in ok : i <= j, 3 + (CHOOSE i \in ok : \A j \in ok : i <= j))

enhance_entity_extraction(text, now) == Call("enhance_entity_extraction", <<text, now>>)

enhance_entity_extraction_body(text, now) ==
    LET entities == extractor_extract_entities(text, now)
        relative_date == parse_relative_date(text, now)
        fallback == FallbackDate(Lower(text), now.y)
        year == YearSearch(text)
        date == IF Truthy(entities.date) THEN entities.date
                ELSE IF relative_date # NoDate THEN format_date_for_display(relative_date)
                ELSE IF fallback # None THEN fallback
                ELSE IF year # "" THEN year \o "-01-01"
                ELSE None
    IN  [entities EXCEPT !.date = date]



common_responses == {"yes", "no", "okay", "sure", "correct", "right", "thanks", "thank", "please"}

common_words ==
    {"feeling", "anytime", "anything", "something", "nothing", "anyone", "someone",
     "nobody", "everybody", "everyone", "whenever", "whatever", "however", "anywhere",
     "going", "looking", "thinking", "trying", "hoping", "planning", "wanting", "needing",
     "one", "two", "three", "four", "five", "six", "seven", "eight", "nine", "ten",
     "first", "second", "third", "fourth", "fifth", "last", "next", "this", "that",
     "these", "those", "there", "here", "today", "tomorrow", "yesterday",
     "monday", "tuesday", "wednesday", "thursday", "friday", "saturday", "sunday"}

scheduling_keywords == {"another", "new", "schedule", "appointment", "what", "ai"}

\* re.match of one of time_patterns: ^\d{1,2}:\d{2}$ or ^\d{1,2}\s*(am|pm|a\.m\.|p\.m\.)$
LooksLikeTime(p) ==
    \E n \in {1, 2} :
        /\ DigitsAt(p, 1, n)
        /\ \/ (At(p, n + 1, ":") /\ DigitsAt(p, n + 2, 2) /\ Len(p) = n + 3)
           \/ LET d == n + 1 + SpaceRun(p, n + 1)
              IN  PeriodAt(p, d) # "" /\ Len(p) = d + Len(PeriodAt(p, d)) - 1

\* the filter on the person the extractor found
PersonRejected(text, person) ==
    \/ (Len(Split(text)) > 2 /\ StartsWith(Strip(text), person) /\ Len(Split(person)) = 1)
    \/ Lower(person) \in common_responses
    \/ Lower(person) \in common_words
    \/ LooksLikeTime(Lower(person))
    \/ Lower(person) \in scheduling_keywords

extract_entities(text, now) == Call("extract_entities", <<text, now>>)

extract_entities_body(text, now) ==
    LET result == enhance_entity_extraction(text, now)
    IN  IF result.person # None /\ PersonRejected(text, result.person)
        THEN [result EXCEPT !.person = None]
        ELSE result

extract_entities_table ==
    Tabulated([now \in Days |-> Tabulated([text \in Utterances(now) |-> extract_entities(text, now)])])


(***************************************************************************)
(* main.process_appointment_intent: the dialogue state machine             *)
(***************************************************************************)
RECURSIVE WordRun(_, _)
\* length of the longest run of \w starting at s[i]
WordRun(s, i) ==
    IF i <= Len(s) /\ IsWordChar(Char(s, i)) THEN 1 + WordRun(s, i + 1) ELSE 0

RECURSIVE SeqAt(_, _, _, _)
\* the regex pat[k..] matches at s[i]; an element of pat is a literal, or
\* "\\s+", "\\s*", "\\w*" (each greedy; none of the patterns needs backtracking)
SeqAt(s, i, pat, k) ==
    IF k > Len(pat) THEN TRUE
    ELSE IF pat[k] = "\\s+" THEN SpaceRun(s, i) >= 1 /\ SeqAt(s, i + SpaceRun(s, i), pat, k + 1)
    ELSE IF pat[k] = "\\s*" THEN SeqAt(s, i + SpaceRun(s, i), pat, k + 1)
    ELSE IF pat[k] = "\\w*" THEN SeqAt(s, i + WordRun(s, i), pat, k + 1)
    ELSE At(s, i, pat[k]) /\ SeqAt(s, i + Len(pat[k]), pat, k + 1)

\* re.search(pat, s)
SeqSearch(s, pat) == \E i \in 1..Len(s) : SeqAt(s, i, pat, 1)

anytime_patterns == <<
    <<"any", "\\s*", "time">>,
    <<"when", "\\w*", "\\s+", "available">>,
    <<"earliest", "\\s+", "available">>,
    <<"first", "\\s+", "available">>,
    <<"whenever">>,
    <<"any", "\\s+", "open", "\\w*", "\\s+", "slot">>,
    <<"any", "\\s+", "opening">>,
    <<"as", "\\s+", "soon", "\\s+", "as", "\\s+", "possible">>,
    <<"asap">>,
    <<"fit", "\\s+", "me", "\\s+", "in">>,
    <<"earliest", "\\s+", "appointment">> >>

IsFlexibleTime(text) == Call("IsFlexibleTime", <<text>>)

IsFlexibleTime_body(text) ==
    \E k \in 1..Len(anytime_patterns) : SeqSearch(Lower(text), anytime_patterns[k])

cancel_current_patterns ==
    {"cancel this appointment", "cancel the current appointment", "cancel that appointment",
     "cancel it", "don't want this appointment", "remove this appointment"}

IsCancelCurrent(text) == \E p \in cancel_current_patterns : Contains(Lower(text), p)

\* the affirmative words accepted at confirming_cancel
cancel_affirmatives ==
    {"yes", "correct", "right", "ok", "okay", "sure", "yeah", "yep", "do that", "please"}

\* the affirmative words accepted at confirming
schedule_affirmatives == {"yes", "correct", "right"}

ConfirmsCancel(text) == \E w \in cancel_affirmatives : Contains(Lower(text), w)

ConfirmsSchedule(text) == \E w \in schedule_affirmatives : Contains(Lower(text), w)

\* str(v) inside an f-string
Str(v) == IF v = None THEN "None" ELSE v

available_times == "9:00 AM, 10:30 AM, 2:00 PM, 3:30 PM, 4:45 PM"

\* what the state machine hands back; raised: an f-string read a key the
\* context does not have (KeyError), and nothing is returned
\* calls: the persistence calls the step made
Reply(response, context) ==
    [response |-> response, context |-> context, raised |-> FALSE, calls |-> <<>>]

ReplyIf(keys, response, context) ==
    [response |-> response, context |-> context,
     raised |-> ~(keys \subseteq DOMAIN context), calls |-> <<>>]

\* the persistence calls a finalization step makes: "# db.add_appointment(...)"
\* and "# db.cancel_appointment(...)" are comments in the source, so none is made
PersistenceCalls(op, person, date, time) == <<>>

\* a finalization step: the reply, and the persistence call with the slots held
Finalize(op, c, response, context) ==
    [Reply(response, context) EXCEPT
        !.calls = PersistenceCalls(op, Get(c, "person"), Get(c, "date"), Get(c, "time"))]

\* the time the reply of a showing_availability turn names:
\* (\d{1,2}):?(\d{2})?\s*(am|pm|a\.m\.|p\.m\.)? ; the period is optional
ChosenTimeAt(s, i) == Call("ChosenTimeAt", <<s, i>>)

ChosenTimeAt_body(s, i) ==
    LET try(k) == TimeTry(s, i, TimeTries[k][1], {":"}, TimeTries[k][2], TimeTries[k][3])
        ok == {k \in 1..Len(TimeTries) : try(k) # NoTime}
    IN  IF ok = {} THEN NoTime ELSE try(CHOOSE k \in ok : \A j \in ok : k <= j)

ChosenTime(text) ==
    LET s  == Lower(text)
        ok == {i \in 1..Len(s) : ChosenTimeAt(s, i) # NoTime}
        m  == ChosenTimeAt(s, CHOOSE i \in ok : \A j \in ok : i <= j)
    IN  IF ok = {} THEN None
        ELSE Pad2(To24(m.hour, m.period)) \o ":" \o Pad2(m.minute)

\* context["phase"] = ph
SetPhase(context, ph) == Put(context, "phase", ph)

\* a completion that leaves ready_for_new_topic out
MarkCompleted_no_flag(context, ts) ==
    Put(context, "appointment_completed_at", ts)

\* the two completion markers
MarkCompleted(context, ts) ==
    Put(Put(context, "appointment_completed_at", ts), "ready_for_new_topic", "True")

ConfirmText(verb, c) ==
    "I'll " \o verb \o " your appointment with " \o Str(Get(c, "person")) \o " on "
        \o Str(Get(c, "date")) \o " at " \o Str(Get(c, "time")) \o ". Is that correct?"

AskDateCheckText(c) ==
    "For which date would you like to check " \o Str(Get(c, "person")) \o "'s availability?"

AvailabilityText(c) ==
    Str(Get(c, "person")) \o " is available on " \o Str(Get(c, "date"))
        \o " at the following times: " \o available_times

AskDateCancelText(c) ==
    "On what date is the appointment with " \o Str(Get(c, "person")) \o " that you want to cancel?"

AskTimeCancelText(c) ==
    "At what time is the appointment with " \o Str(Get(c, "person")) \o " on "
        \o Str(Get(c, "date")) \o " that you want to cancel?"

AskDateText(c) == "What day would you like to schedule with " \o Str(Get(c, "person")) \o "?"

AskTimeText(c) ==
    "What time would you like for your appointment with " \o Str(Get(c, "person"))
        \o " on " \o Str(Get(c, "date")) \o "?"

CancelledText(person, c) ==
    "I've cancelled your appointment with " \o Str(person) \o " on " \o Str(Get(c, "date"))
        \o " at " \o Str(Get(c, "time")) \o ". Is there anything else I can help you with?"

\* the person a cancellation is carried out for: "That" (from "do that") is
\* replaced by the backup name
CancelPerson(c) ==
    LET person == Get(c, "person")
    IN  IF Truthy(person) /\ Lower(person) = "that" /\ Truthy(Get(c, "previous_person"))
        THEN Get(c, "previous_person") ELSE person

\* the finalization of a cancellation
FinishCancel(c, ts) ==
    Put(MarkCompleted(SetPhase(c, "completed"), ts), "person", CancelPerson(c))

\* "if intent == 'check_availability'": every branch returns
CheckAvailabilityStep(c) ==
    IF ~Has(c, "person")
    THEN Reply("Whose availability would you like to check?", SetPhase(c, "asking_person_check"))
    ELSE IF ~Has(c, "date")
    THEN Reply(AskDateCheckText(c), SetPhase(c, "asking_date_check"))
    ELSE Reply(AvailabilityText(c), SetPhase(c, "showing_availability"))

\* "if intent == 'cancel_appointment'": every branch returns
CancelStep(text, c, phase, ts) ==
    IF ~Has(c, "person")
    THEN Reply("Whose appointment would you like to cancel?", SetPhase(c, "asking_person_cancel"))
    ELSE IF ~Has(c, "date")
    THEN Reply(AskDateCancelText(c), SetPhase(c, "asking_date_cancel"))
    ELSE IF ~Has(c, "time")
    THEN Reply(AskTimeCancelText(c), SetPhase(c, "asking_time_cancel"))
    ELSE IF phase = "confirming_cancel" /\ ConfirmsCancel(text)
    THEN Finalize("cancel_appointment", c, CancelledText(CancelPerson(c), c), FinishCancel(c, ts))
    ELSE Reply(ConfirmText("cancel", c),
               LET c1 == SetPhase(c, "confirming_cancel")
               IN  IF Truthy(Get(c, "person")) /\ Lower(Get(c, "person")) # "that"
                   THEN Put(c1, "previous_person", Get(c, "person")) ELSE c1)

\* "if not phase or phase == 'init'"
InitStep(c, intent) ==
    IF intent = "schedule_appointment"
    THEN IF ~Has(c, "person")
         THEN Reply("Who would you like to schedule an appointment with?", SetPhase(c, "asking_person"))
         ELSE IF ~Has(c, "date") THEN Reply(AskDateText(c), SetPhase(c, "asking_date"))
         ELSE IF ~Has(c, "time") THEN Reply(AskTimeText(c), SetPhase(c, "asking_time"))
         ELSE Reply(ConfirmText("schedule", c), SetPhase(c, "confirming"))
    ELSE IF intent = "list_appointments"
    THEN Reply("You have the following appointments scheduled:\n- Dr. Smith on Monday at 2:00 PM\n- Dentist on Friday at 10:30 AM",
               SetPhase(c, "listing_appointments"))
    ELSE Reply("", c)

\* phases asking_change and asking_change_cancel: which slot to clear
ChangeStep(text, c, intent) ==
    LET s == Lower(text)
        cancel == intent = "cancel_appointment"
    IN  IF Contains(s, "person") \/ Contains(s, "who") \/ Contains(s, "name")
        THEN Reply(IF intent = "schedule_appointment" THEN "Who would you like to schedule with instead?"
                   ELSE "Whose appointment would you like to cancel?",
                   Pop(SetPhase(c, IF cancel THEN "asking_person_cancel" ELSE "asking_person"), "person"))
        ELSE IF Contains(s, "date") \/ Contains(s, "day") \/ Contains(s, "when")
        THEN Reply("What day would you prefer instead?",
                   Pop(SetPhase(c, IF cancel THEN "asking_date_cancel" ELSE "asking_date"), "date"))
        ELSE IF Contains(s, "time") \/ Contains(s, "hour")
        THEN Reply("What time would you prefer instead?",
                   Pop(SetPhase(c, IF cancel THEN "asking_time_cancel" ELSE "asking_time"), "time"))
        ELSE Reply("Let's start over. What would you like to do?", SetPhase(c, "init"))

\* phase confirming_cancel reached outside the cancel block
ConfirmCancelStep(text, c, ts) ==
    IF ConfirmsCancel(text)
    THEN Finalize("cancel_appointment", c, CancelledText(CancelPerson(c), c), FinishCancel(c, ts))
    ELSE Reply("What would you like to change about the cancellation?",
               SetPhase(c, "asking_change_cancel"))

\* phase confirming
ConfirmStep(text, c) ==
    IF ConfirmsSchedule(text)
    THEN IF Truthy(Get(c, "person")) /\ Truthy(Get(c, "date")) /\ Truthy(Get(c, "time"))
         THEN Finalize("add_appointment", c,
                       "Great! Your appointment with " \o Str(Get(c, "person"))
                           \o " has been scheduled for " \o Str(Get(c, "date")) \o " at "
                           \o Str(Get(c, "time")) \o ".",
                       SetPhase(c, "completed"))
         ELSE Reply("I'm missing some information. Let's start over. Who would you like to schedule with?",
                    SetPhase(c, "init"))
    ELSE Reply("What would you like to change about the appointment?", SetPhase(c, "asking_change"))

\* phase showing_availability with the word "time" in the reply
ChooseSlotStep(text, c) ==
    LET t  == ChosenTime(text)
        c1 == SetPhase(Put(Put(c, "time", t), "intent", "schedule_appointment"), "confirming")
    IN  IF t # None THEN ReplyIf({"person", "date"}, ConfirmText("schedule", c1), c1)
        ELSE Reply("I didn't understand the time you want. Please specify a time like '3:30 PM'.", c)

\* "else: handle ongoing conversation based on current phase"
PhaseStep(text, c, intent, phase, ts) == Call("PhaseStep", <<text, c, intent, phase, ts>>)

PhaseStep_body(text, c, intent, phase, ts) ==
    IF phase = "asking_person_check"
    THEN IF Has(c, "person") THEN Reply(AskDateCheckText(c), SetPhase(c, "asking_date_check"))
         ELSE Reply("I need to know whose availability you want to check. Please provide a name.", c)
    ELSE IF phase = "asking_date_check"
    THEN IF Has(c, "date")
         THEN ReplyIf({"person"}, AvailabilityText(c), SetPhase(c, "showing_availability"))
         ELSE ReplyIf({"person"}, "I need a date to check availability for " \o Str(Get(c, "person"))
                          \o ". What day are you interested in?", c)
    ELSE IF phase = "showing_availability" /\ Contains(Lower(text), "time")
    THEN ChooseSlotStep(text, c)
    ELSE IF phase = "asking_person_cancel"
    THEN IF Has(c, "person") THEN Reply(AskDateCancelText(c), SetPhase(c, "asking_date_cancel"))
         ELSE Reply("I need to know whose appointment you want to cancel. Please provide a name.", c)
    ELSE IF phase = "asking_date_cancel"
    THEN IF Has(c, "date")
         THEN ReplyIf({"person"}, AskTimeCancelText(c), SetPhase(c, "asking_time_cancel"))
         ELSE ReplyIf({"person"}, "I need to know the date of the appointment with "
                          \o Str(Get(c, "person")) \o " that you want to cancel.", c)
    ELSE IF phase = "asking_time_cancel"
    THEN IF Has(c, "time")
         THEN ReplyIf({"person", "date"}, ConfirmText("cancel", c),
                      Put(SetPhase(c, "confirming_cancel"), "previous_person", Get(c, "person")))
         ELSE ReplyIf({"person", "date"}, AskTimeCancelText(c), c)
    ELSE IF phase = "confirming_cancel" THEN ConfirmCancelStep(text, c, ts)
    ELSE IF phase = "asking_person"
    THEN IF Has(c, "person") THEN Reply(AskDateText(c), SetPhase(c, "asking_date"))
         ELSE Reply("I need to know who you want to schedule with. Please provide a name.", c)
    ELSE IF phase = "asking_date"
    THEN IF Has(c, "date") THEN ReplyIf({"person"}, AskTimeText(c), SetPhase(c, "asking_time"))
         ELSE ReplyIf({"person"}, "I need a date for your appointment with " \o Str(Get(c, "person"))
                          \o ". When would you like to schedule it?", c)
    ELSE IF phase = "asking_time"
    THEN IF Has(c, "time")
         THEN ReplyIf({"person", "date"}, ConfirmText("schedule", c), SetPhase(c, "confirming"))
         ELSE ReplyIf({"person", "date"}, AskTimeText(c), c)
    ELSE IF phase = "confirming" THEN ConfirmStep(text, c)
    ELSE IF phase \in {"asking_change", "asking_change_cancel"} THEN ChangeStep(text, c, intent)
    ELSE Reply("", c)

process_appointment_intent(text, context, ts) == Call("process_appointment_intent", <<text, context, ts>>)

\* the state machine with a cancel shortcut that asks for no person and no date
process_appointment_intent_any_cancel(text, context, ts) ==
    LET intent == GetOr(context, "intent", "schedule_appointment")
        phase  == GetOr(context, "phase", "init")
        c ==  IF phase = "asking_time" /\ "time" \notin DOMAIN context /\ IsFlexibleTime(text)
              THEN Put(context, "time", "first available") ELSE context
        step == IF ~Truthy(phase) \/ phase = "init" THEN InitStep(c, intent)
                ELSE PhaseStep(text, c, intent, phase, ts)
        response == IF step.response = ""
                    THEN "I'm not sure what you want to do with your appointment. Can you please be more specific?"
                    ELSE step.response
        done == phase = "completed" \/ Get(step.context, "phase") = "completed"
    IN  IF IsCancelCurrent(text)
        THEN Reply("I'll cancel your appointment with " \o Str(Get(c, "person")) \o " on "
                       \o Str(Get(c, "date")) \o " at " \o Str(GetOr(c, "time", "the scheduled time"))
                       \o ". Is that correct?",
                   SetPhase(Put(c, "intent", "cancel_appointment"), "confirming_cancel"))
        ELSE IF intent = "check_availability" THEN CheckAvailabilityStep(c)
        ELSE IF intent = "cancel_appointment" THEN CancelStep(text, c, phase, ts)
        ELSE [step EXCEPT !.response = response,
                          !.context = IF done THEN MarkCompleted(step.context, ts) ELSE step.context]

process_appointment_intent_body(text, context, ts) ==
    LET intent == GetOr(context, "intent", "schedule_appointment")
        phase  == GetOr(context, "phase", "init")
        c ==  IF phase = "asking_time" /\ "time" \notin DOMAIN context /\ IsFlexibleTime(text)
              THEN Put(context, "time", "first available") ELSE context
        step == IF ~Truthy(phase) \/ phase = "init" THEN InitStep(c, intent)
                ELSE PhaseStep(text, c, intent, phase, ts)
        response == IF step.response = ""
                    THEN "I'm not sure what you want to do with your appointment. Can you please be more specific?"
                    ELSE step.response
        done == phase = "completed" \/ Get(step.context, "phase") = "completed"
    IN  IF IsCancelCurrent(text) /\ Truthy(Get(c, "person")) /\ Truthy(Get(c, "date"))
        THEN Reply("I'll cancel your appointment with " \o Str(c["person"]) \o " on "
                       \o Str(c["date"]) \o " at " \o Str(GetOr(c, "time", "the scheduled time"))
                       \o ". Is that correct?",
                   SetPhase(Put(c, "intent", "cancel_appointment"), "confirming_cancel"))
        ELSE IF intent = "check_availability" THEN CheckAvailabilityStep(c)
        ELSE IF intent = "cancel_appointment" THEN CancelStep(text, c, phase, ts)
        ELSE [step EXCEPT !.response = response,
                          !.context = IF done THEN MarkCompleted(step.context, ts) ELSE step.context]

(***************************************************************************)
(* extract_entities_with_ai: the LLM fallback.  What the collaborator      *)
(* answers is an input of the turn:                                        *)
(*   [kind |-> "raise"]            agent.run raised                        *)
(*   [kind |-> "json",  fields]    the content parsed as a JSON object     *)
(*   [kind |-> "loose", fields]    json.loads failed; fields are the       *)
(*                                 "key": "value" pairs the text holds      *)
(* A JSON null is None.                                                    *)
(***************************************************************************)
\* json_str.replace('"NULL"', 'null') and its two companions
NullFix(v) == IF v \in {"NULL", "null"} THEN None ELSE v

\* ^\d{1,2}(:\d{2})?\s*(am|pm|a\.m\.|p\.m\.)?$ on the lower-cased value
LooksLikeTimeOnly(s) ==
    \E n \in 1..2 : \E min \in BOOLEAN :
        LET a == 1 + n
            b == a + (IF min THEN 3 ELSE 0)
            c == b + SpaceRun(s, b)
        IN  /\ DigitsAt(s, 1, n)
            /\ min => (At(s, a, ":") /\ DigitsAt(s, a + 1, 2))
            /\ Sub(s, c, Len(s)) \in {"", "am", "pm", "a.m.", "p.m."}

\* \b(january|...|december)\b on the lower-cased value
HasMonthWord(s) == \E k \in 1..Len(months) : ContainsWord(s, months[k])

\* \d{4}-\d{2}-\d{2}
HasIsoDate(s) ==
    \E i \in 1..Len(s) :
        /\ DigitsAt(s, i, 4) /\ At(s, i + 4, "-") /\ DigitsAt(s, i + 5, 2)
        /\ At(s, i + 7, "-") /\ DigitsAt(s, i + 8, 2)

flexible_phrases ==
    <<"anytime", "any time", "whenever", "available", "asap", "as soon as", "earliest">>

\* the body of "for key in result"
Sanitize(key, v0) == Call("Sanitize", <<key, v0>>)

Sanitize_body(key, v0) ==
    LET v1 == IF v0 # None /\ Lower(v0) \in {"null", "unknown", ""} THEN None ELSE v0
        v2 == IF key = "date" /\ v1 # None /\ LooksLikeTimeOnly(Lower(v1)) THEN None ELSE v1
        v3 == IF key = "time" /\ v2 # None /\ (HasMonthWord(Lower(v2)) \/ HasIsoDate(v2))
              THEN None ELSE v2
    IN  IF key = "time" /\ Truthy(v3)
           /\ \E k \in 1..Len(flexible_phrases) : Contains(Lower(v3), flexible_phrases[k])
        THEN "first available" ELSE v3

\* building the prompt: the f-string holds the example object
\* { "person": "John Smith", ... } unescaped, a replacement field whose format
\* specifier str.__format__ rejects; ValueError leaves the function before
\* its try block, whatever the text and the slots asked for
PromptRaises(text, missing_entities) == TRUE

\* raised: the call ended in an exception; entities: the dict it returned
extract_entities_with_ai(text, missing_entities, reply) == Call("extract_entities_with_ai", <<text, missing_entities, reply>>)

extract_entities_with_ai_body(text, missing_entities, reply) ==
    LET wanted == Range(missing_entities)
        parsed == IF reply.kind = "json"
                  THEN [k \in DOMAIN reply.fields |-> NullFix(reply.fields[k])]
                  ELSE [e \in wanted |->
                           IF e \in DOMAIN reply.fields /\ Truthy(NullFix(reply.fields[e]))
                           THEN reply.fields[e] ELSE None]
        result == [k \in DOMAIN parsed |-> Sanitize(k, parsed[k])]
    IN  IF PromptRaises(text, missing_entities)
        THEN [raised |-> TRUE, entities |-> EmptyDict]
        ELSE IF reply.kind = "raise"
        THEN [raised |-> FALSE, entities |-> [e \in wanted |-> None]]
        ELSE [raised |-> FALSE,
              entities |-> [k \in DOMAIN result \cup wanted |->
                               IF k \in DOMAIN result THEN result[k] ELSE None]]

(***************************************************************************)
(* The conversation memory: memory["conversations"], memory["entities"],   *)
(* memory["topics_discussed"], memory["questions_asked"], each a dict      *)
(* keyed by session id.                                                    *)
(***************************************************************************)
EmptyMemory ==
    [conversations |-> EmptyDict, entities |-> EmptyDict,
     topics_discussed |-> EmptyDict, questions_asked |-> EmptyDict]

topic_keywords ==
    [appointment |-> {"appointment", "schedule", "book", "reservation", "meeting", "availability"},
     time_management |-> {"time", "schedule", "calendar", "availability", "busy", "free"},
     contact |-> {"contact", "person", "people", "name", "meet with", "call"},
     health |-> {"doctor", "health", "medical", "appointment", "checkup", "examination"},
     business |-> {"business", "meeting", "client", "customer", "project", "work"},
     personal |-> {"family", "friend", "personal", "vacation", "holiday", "break"}]

extract_topics_from_text(text) ==
    LET text_lower == Lower(text)
    IN  {topic \in DOMAIN topic_keywords :
            \E keyword \in topic_keywords[topic] : Contains(text_lower, keyword)}

extract_topics_from_text_table == Tabulated([text \in Vocabulary |-> extract_topics_from_text(text)])


\* memory["entities"].setdefault(session_id, {}).setdefault(key, []) and the
\* append of a value the list does not hold yet
\* RememberEntity with the append made for every value
RememberEntity_always_appends(mem, session_id, key, value) ==
    LET mine == GetOr(mem.entities, session_id, EmptyDict)
        list == GetOr(mine, key, <<>>)
        new  == Append(list, value)
    IN  [mem EXCEPT !.entities = Put(mem.entities, session_id, Put(mine, key, new))]

RememberEntity(mem, session_id, key, value) ==
    LET mine == GetOr(mem.entities, session_id, EmptyDict)
        list == GetOr(mine, key, <<>>)
        new  == IF InList(value, list) THEN list ELSE Append(list, value)
    IN  [mem EXCEPT !.entities = Put(mem.entities, session_id, Put(mine, key, new))]

RECURSIVE RememberEntities(_, _, _, _)
\* RememberEntity for the truthy values of entities, slot by slot
RememberEntities(mem, session_id, entities, keys) ==
    IF keys = <<>> THEN mem
    ELSE LET k == Head(keys)
             m == IF Truthy(Get(entities, k)) THEN RememberEntity(mem, session_id, k, entities[k])
                  ELSE mem
         IN  RememberEntities(m, session_id, entities, Tail(keys))

RememberTopics(mem, session_id, text) ==
    LET topics == extract_topics_from_text_table[text]
    IN  IF topics = {} THEN mem
        ELSE [mem EXCEPT !.topics_discussed =
                  Put(mem.topics_discussed, session_id,
                      GetOr(mem.topics_discussed, session_id, {}) \cup topics)]

SlotKeys == <<"person", "date", "time">>

update_memory_with_conversation(mem, session_id, user_text, ai_response, context, now, ts) ==
    IF ~Truthy(session_id) THEN mem
    ELSE LET turn == [user |-> user_text, ai |-> ai_response, timestamp |-> ts,
                      context |-> context]
             m0 == [conversations |->
                        Put(mem.conversations, session_id,
                            Append(GetOr(mem.conversations, session_id, <<>>), turn)),
                    entities |->
                        Put(mem.entities, session_id, GetOr(mem.entities, session_id, EmptyDict)),
                    topics_discussed |->
                        Put(mem.topics_discussed, session_id,
                            GetOr(mem.topics_discussed, session_id, {})
                                \cup extract_topics_from_text_table[user_text]),
                    questions_asked |->
                        Put(mem.questions_asked, session_id,
                            GetOr(mem.questions_asked, session_id, {})
                                \cup (IF Contains(user_text, "?") THEN {Strip(user_text)} ELSE {}))]
         IN  RememberEntities(m0, session_id, extract_entities_table[now][user_text], SlotKeys)

\* the intent of the most recent of the examined turns that recorded one;
\* range(len - 1, max(-1, len - max_history), -1) stops before len - max_history
get_previous_intent(mem, session_id, max_history) == Call("get_previous_intent", <<mem, session_id, max_history>>)

get_previous_intent_body(mem, session_id, max_history) ==
    IF ~Truthy(session_id) \/ session_id \notin DOMAIN mem.conversations THEN None
    ELSE LET conversations == mem.conversations[session_id]
             n    == Len(conversations)
             stop == IF n - max_history > -1 THEN n - max_history ELSE -1
             seen == {i \in (stop + 1)..(n - 1) :
                         i >= 0 /\ "intent" \in DOMAIN conversations[i + 1].context}
         IN  IF seen = {} THEN None
             ELSE conversations[(CHOOSE i \in seen : \A j \in seen : j <= i) + 1].context["intent"]

(***************************************************************************)
(* main.handle_appointment_query                                           *)
(***************************************************************************)
person_asking_phases == {"asking_person", "asking_person_cancel", "asking_person_check"}

\* \d{1,2}:\d{2}
HasClockTime(s) ==
    \E i \in 1..Len(s) : DigitsAt(s, i, 1) /\ At(s, i + 1, ":") /\ DigitsAt(s, i + 2, 2)

\* "if 'intent' not in context ... else ..."
WithIntent(message_text, context) == Call("WithIntent", <<message_text, context>>)

WithIntent_body(message_text, context) ==
    LET intent == identify_intent_table[message_text]
    IN  IF "intent" \notin DOMAIN context
        THEN Put(context, "intent",
                 IF intent \in AppointmentIntents THEN intent ELSE "schedule_appointment")
        ELSE IF intent \in AppointmentIntents /\ intent # context["intent"]
        THEN Pop(Put(context, "intent", intent), "phase")
        ELSE context

\* the slots neither the extraction nor the context has a value for
MissingEntities(entities, context) == Call("MissingEntities", <<entities, context>>)

\* MissingEntities with the context left out of the test
MissingEntities_ignores_context(entities, context) ==
    LET lacks(k) == ~Truthy(Get(entities, k))
        need(k)  == IF lacks(k) THEN <<k>> ELSE <<>>
    IN  IF context["intent"] = "schedule_appointment"
        THEN need("person") \o need("date") \o need("time")
        ELSE IF context["intent"] = "cancel_appointment"
        THEN need("person") \o (IF lacks("date") /\ lacks("time") THEN <<"date", "time">> ELSE <<>>)
        ELSE IF context["intent"] = "check_availability" THEN need("person")
        ELSE <<>>

MissingEntities_body(entities, context) ==
    LET lacks(k) == ~Truthy(Get(entities, k)) /\ ~Truthy(Get(context, k))
        need(k)  == IF lacks(k) THEN <<k>> ELSE <<>>
    IN  IF context["intent"] = "schedule_appointment"
        THEN need("person") \o need("date") \o need("time")
        ELSE IF context["intent"] = "cancel_appointment"
        THEN need("person") \o (IF lacks("date") /\ lacks("time") THEN <<"date", "time">> ELSE <<>>)
        ELSE IF context["intent"] = "check_availability" THEN need("person")
        ELSE <<>>

\* a short reply in a person-asking phase is taken as the name
IsNameReply(message_text, context, missing_entities) == Call("IsNameReply", <<message_text, context, missing_entities>>)

IsNameReply_body(message_text, context, missing_entities) ==
    /\ missing_entities # <<>>
    /\ "phase" \in DOMAIN context
    /\ context["phase"] \in person_asking_phases
    /\ Len(Split(message_text)) <= 3
    /\ Len(Strip(message_text)) > 1
    /\ Lower(Strip(message_text)) \notin domain_specific_words

\* the person guard of both merge loops
PersonGuarded(key, original_person, original_phase) ==
    /\ key = "person"
    /\ original_person # None
    /\ original_phase \notin ({"init"} \cup person_asking_phases)

\* "for key, value in entities.items()": may this value be written?
AcceptsExtracted(key, value, original_person, original_phase) ==
    /\ Truthy(value)
    /\ ~(key = "person" /\ Lower(value) \in {"availability", "availibility", "appointment"})
    /\ ~PersonGuarded(key, original_person, original_phase)

\* "for key in missing_entities": may the AI's value be written?
AcceptsAI(key, value, original_person, original_phase) ==
    /\ Truthy(value)
    /\ ~(key = "person" /\ (HasIsoDate(value) \/ HasClockTime(value)))
    /\ ~PersonGuarded(key, original_person, original_phase)

\* context[key] = value, and the value's entry in the session's history,
\* for every key of keys that has a value to write
MergeInto(acc, session_id, values, keys) == Call("MergeInto", <<acc, session_id, values, keys>>)

MergeInto_body(acc, session_id, values, keys) ==
    IF keys = <<>> THEN acc
    ELSE LET k == Head(keys)
             v == Get(values, k)
             a == IF v # None
                  THEN [context |-> Put(acc.context, k, v),
                        memory  |-> IF Truthy(session_id)
                                    THEN RememberEntity(acc.memory, session_id, k, v)
                                    ELSE acc.memory]
                  ELSE acc
         IN  MergeInto(a, session_id, values, Tail(keys))

handle_appointment_query(message_text, context0, session_id, mem, now, ts, reply) == Call("handle_appointment_query", <<message_text, context0, session_id, mem, now, ts, reply>>)

handle_appointment_query_body(message_text, context0, session_id, mem, now, ts, reply) ==
    LET original_person == Get(context0, "person")
        original_phase  == Get(context0, "phase")
        context   == WithIntent(message_text, context0)
        extracted == extract_entities_table[now][message_text]
        missing0  == MissingEntities(extracted, context)
        named     == IsNameReply(message_text, context, missing0)
        entities  == IF named THEN [extracted EXCEPT !.person = Capitalize(Strip(message_text))]
                     ELSE extracted
        missing_entities == IF named THEN SelectSeq(missing0, LAMBDA e : e # "person") ELSE missing0
        written   == [k \in Range(SlotKeys) |->
                         IF AcceptsExtracted(k, entities[k], original_person, original_phase)
                         THEN entities[k] ELSE None]
        merged    == MergeInto([context |-> context, memory |-> mem], session_id,
                               written, SlotKeys)
        ai        == extract_entities_with_ai(message_text, missing_entities, reply)
        fromAI    == [k \in Range(missing_entities) |->
                         IF AcceptsAI(k, ai.entities[k], original_person, original_phase)
                         THEN ai.entities[k] ELSE None]
        withAI    == IF missing_entities = <<>> \/ ai.raised THEN merged
                     ELSE MergeInto(merged, session_id, fromAI, missing_entities)
        topical   == IF Truthy(session_id) THEN RememberTopics(withAI.memory, session_id, message_text)
                     ELSE withAI.memory
        step      == process_appointment_intent(message_text, withAI.context, ts)
    IN  [raised  |-> step.raised,
         result  |-> [response |-> step.response, context |-> step.context,
                      session_id |-> session_id],
         memory  |-> IF step.raised THEN topical
                     ELSE update_memory_with_conversation(topical, session_id, message_text,
                                                          step.response, step.context, now, ts),
         aiCalls |-> IF missing_entities = <<>> THEN <<>> ELSE <<missing_entities>>,
         calls   |-> step.calls]

(***************************************************************************)
(* The LLM behind agent.run: what it answers is an input of the turn,      *)
(* ai.intent to the intent prompt and ai.answer to every other prompt;     *)
(* Raises stands for a call that raised.                                   *)
(***************************************************************************)
Raises == "<raises>"

\* strip_markdown of an answer that holds no markdown: the final text.strip()
strip_markdown(text) == Strip(text)

format_response_for_output(text, is_speech) == IF is_speech THEN strip_markdown(text) ELSE text

generate_conversation_summary(mem, session_id, ai) ==
    IF session_id \notin DOMAIN mem.conversations \/ mem.conversations[session_id] = <<>>
    THEN "No conversation history found."
    ELSE IF ai.answer = Raises
    THEN "This conversation included " \o ToString(Len(mem.conversations[session_id]))
             \o " exchanges about appointments and scheduling."
    ELSE strip_markdown(ai.answer)

\* what a handler hands back: the dict it returns, the memory it leaves,
\* the slot lists the AI fallback was asked for, the persistence calls made
Outcome(result, mem, asked, made) ==
    [raised |-> FALSE, result |-> result, memory |-> mem, aiCalls |-> asked, calls |-> made]

handle_knowledge_query(text, session_id, is_speech, mem, now, ts, ai) == Call("handle_knowledge_query", <<text, session_id, is_speech, mem, now, ts, ai>>)

handle_knowledge_query_body(text, session_id, is_speech, mem, now, ts, ai) ==
    LET answered(response) == [response |-> response, context |-> EmptyDict,
                               session_id |-> session_id]
        summary == IF Truthy(session_id) THEN generate_conversation_summary(mem, session_id, ai)
                   ELSE "No conversation history found."
        result  == format_response_for_output(ai.answer, is_speech)
    IN  IF check_if_summary_requested_table[text]
        THEN Outcome(answered(format_response_for_output(summary, is_speech)), mem, <<>>, <<>>)
        ELSE IF ai.answer = Raises
        THEN Outcome(answered("I'm sorry, I couldn't retrieve that information right now. Please try asking in a different way."),
                     mem, <<>>, <<>>)
        ELSE Outcome(answered(result),
                     update_memory_with_conversation(mem, session_id, text, result, EmptyDict, now, ts),
                     <<>>, <<>>)

(***************************************************************************)
(* main.process_message                                                    *)
(***************************************************************************)
knowledge_question_indicators ==
    {"what is", "what are", "who is", "who are", "how does", "how do", "explain", "tell me about",
     "when was", "when is", "where is", "where are", "why is", "why are", "define", "definition",
     "defination", "meaning of", "can you explain", "what does", "tell me more"}

new_appointment_keywords ==
    {"new appointment", "another appointment", "different appointment",
     "schedule another", "book another", "make another"}

\* the special case "see a doctor"
WithDoctor(text_lower, context) == Call("WithDoctor", <<text_lower, context>>)

WithDoctor_body(text_lower, context) ==
    IF \/ Contains(text_lower, "see a doctor") \/ Contains(text_lower, "see the doctor")
       \/ Contains(text_lower, "need a doctor") \/ Contains(text_lower, "need to see a doctor")
    THEN Put(Put(context, "intent", "schedule_appointment"), "person", "Doctor")
    ELSE context

\* {"intent": intent, "phase": "init"} with the person and the date carried over
SwitchedTo(intent, context) ==
    LET c0 == Put(Put(EmptyDict, "intent", intent), "phase", "init")
        c1 == IF Truthy(Get(context, "person")) THEN Put(c0, "person", context["person"]) ELSE c0
    IN  IF Truthy(Get(context, "date")) THEN Put(c1, "date", context["date"]) ELSE c1

\* the intent correction/switching patterns
WithSwitch(text_lower, context) == Call("WithSwitch", <<text_lower, context>>)

WithSwitch_body(text_lower, context) ==
    IF Contains(text_lower, "check availability") \/ Contains(text_lower, "check availibility")
       \/ Contains(text_lower, "availability")
    THEN SwitchedTo("check_availability", context)
    ELSE IF Contains(text_lower, "cancel") /\ Contains(text_lower, "appointment")
    THEN SwitchedTo("cancel_appointment", context)
    ELSE context

RECURSIVE WithEntities(_, _, _)
\* "for key, value in temp_entities.items(): if value: context[key] = value"
WithEntities(context, entities, keys) ==
    IF keys = <<>> THEN context
    ELSE WithEntities(IF Truthy(entities[Head(keys)])
                      THEN Put(context, Head(keys), entities[Head(keys)]) ELSE context,
                      entities, Tail(keys))

\* the date of a follow-up reply to a date question
FollowUpDate(message_text, context, current_phase, now) ==
    LET date_result == parse_relative_date(message_text, now)
        enhanced    == enhance_entity_extraction(message_text, now)
    IN  IF current_phase \notin {"asking_date", "asking_date_cancel", "asking_date_check"}
           \/ "date" \in DOMAIN context
        THEN context
        ELSE IF date_result # NoDate THEN Put(context, "date", format_date_for_display(date_result))
        ELSE IF Truthy(Get(enhanced, "date")) THEN Put(context, "date", enhanced["date"])
        ELSE context

\* the time of a follow-up reply to a time question
FollowUpTime(message_text, context, current_phase) ==
    LET time_result == _extract_time(message_text)
    IN  IF current_phase \in {"asking_time", "asking_time_cancel", "asking_time_after_availability"}
           /\ "time" \notin DOMAIN context /\ Truthy(time_result)
        THEN Put(context, "time", time_result)
        ELSE context

\* the block "if detected_intent == 'unknown' and len(message_text.split()) > 3":
\* the LLM classifies the message.  The handlers are called inside the try, so
\* an exception of the appointment handler is swallowed and the message falls
\* through to the last block, where an unknown intent is a knowledge query
AIIntentDetection(message_text, context, session_id, is_speech, mem, now, ts, ai) ==
    LET ai_intent == Lower(Strip(ai.intent))
        knowledge(m) == handle_knowledge_query(message_text, session_id, is_speech, m, now, ts, ai)
        appointment  ==
            handle_appointment_query(
                message_text,
                IF ai_intent \in AppointmentIntents
                THEN Put(Put(context, "intent", ai_intent), "phase", "init") ELSE context,
                session_id, mem, now, ts, ai.extract)
    IN  IF ai.intent = Raises THEN knowledge(mem)
        ELSE IF ai_intent \in AppointmentIntents \/ Contains(ai_intent, "appointment")
        THEN (IF appointment.raised THEN knowledge(appointment.memory) ELSE appointment)
        ELSE knowledge(mem)

process_message(message_text, conversation_context, session_id, is_speech, mem, now, ts, ai) == Call("process_message", <<message_text, conversation_context, session_id, is_speech, mem, now, ts, ai>>)

process_message_body(message_text, conversation_context, session_id, is_speech, mem, now, ts, ai) ==
    LET text_lower == Lower(message_text)
        switched == WithSwitch(text_lower, WithDoctor(text_lower, conversation_context))
        detected_intent == identify_intent_table[message_text]
        temp_entities == extract_entities_table[now][message_text]
        knowledge == handle_knowledge_query(message_text, session_id, is_speech, mem, now, ts, ai)
        appointment(context) ==
            handle_appointment_query(message_text, context, session_id, mem, now, ts, ai.extract)
        completed == Get(switched, "phase") = "completed"
        reset == IF completed THEN EmptyDict ELSE switched
        current_phase == IF completed THEN None ELSE Get(switched, "phase")
        intent0 == IF completed THEN None ELSE Get(switched, "intent")
        previous_intent == get_previous_intent(mem, session_id, 5)
        recalled == ~Truthy(intent0) /\ Truthy(session_id) /\ Truthy(previous_intent)
        context == IF recalled THEN Put(reset, "intent", previous_intent) ELSE reset
        current_intent == IF recalled THEN previous_intent ELSE intent0
    IN  IF message_text = ""
        THEN Outcome([response |-> "I didn't receive any message. How can I help you?"],
                     mem, <<>>, <<>>)
        ELSE IF check_if_summary_requested_table[message_text]
        THEN Outcome([response |-> generate_conversation_summary(mem, session_id, ai),
                      context |-> conversation_context, session_id |-> session_id],
                     mem, <<>>, <<>>)
        ELSE IF detected_intent = "knowledge" THEN knowledge
        ELSE IF \E indicator \in knowledge_question_indicators : Contains(text_lower, indicator)
        THEN knowledge
        ELSE IF \E keyword \in new_appointment_keywords : Contains(text_lower, keyword)
        THEN appointment(IF Truthy(temp_entities.person)
                         THEN Put(Put(EmptyDict, "intent", "schedule_appointment"),
                                  "person", temp_entities.person)
                         ELSE Put(EmptyDict, "intent", "schedule_appointment"))
        ELSE IF detected_intent \in AppointmentIntents /\ detected_intent # current_intent
        THEN appointment(WithEntities(Put(Put(EmptyDict, "intent", detected_intent), "phase", "init"),
                                      temp_entities, SlotKeys))
        ELSE IF Truthy(current_phase) /\ current_phase # "init" /\ current_intent \in AppointmentIntents
        THEN appointment(FollowUpTime(message_text,
                                      FollowUpDate(message_text, context, current_phase, now),
                                      current_phase))
        ELSE IF /\ Truthy(temp_entities.date) \/ Truthy(temp_entities.time)
                /\ Truthy(session_id)
                /\ previous_intent \in {"schedule_appointment", "cancel_appointment", "check_availability"}
        THEN appointment(WithEntities(Put(context, "intent", previous_intent), temp_entities, SlotKeys))
        ELSE IF detected_intent = "unknown" /\ Len(Split(message_text)) > 3
        THEN AIIntentDetection(message_text, context, session_id, is_speech, mem, now, ts, ai)
        ELSE IF detected_intent \in AppointmentIntents
        THEN appointment(IF current_intent # detected_intent
                         THEN Put(EmptyDict, "intent", detected_intent) ELSE context)
        ELSE knowledge

\* process_message reaches a call of agent.run (lines 556, 624, 1298, 1540);
\* out is what it hands back, which tells whether handle_appointment_query
\* has called extract_entities_with_ai
CallsAgent(message_text, conversation_context, session_id, mem, now, out) == Call("CallsAgent", <<message_text, conversation_context, session_id, mem, now, out>>)

CallsAgent_body(message_text, conversation_context, session_id, mem, now, out) ==
    LET text_lower == Lower(message_text)
        switched == WithSwitch(text_lower, WithDoctor(text_lower, conversation_context))
        detected_intent == identify_intent_table[message_text]
        temp_entities == extract_entities_table[now][message_text]
        completed == Get(switched, "phase") = "completed"
        current_phase == IF completed THEN None ELSE Get(switched, "phase")
        intent0 == IF completed THEN None ELSE Get(switched, "intent")
        previous_intent == get_previous_intent(mem, session_id, 5)
        recalled == ~Truthy(intent0) /\ Truthy(session_id) /\ Truthy(previous_intent)
        current_intent == IF recalled THEN previous_intent ELSE intent0
        \* handle_appointment_query reaches line 624 when it calls
        \* extract_entities_with_ai and the prompt of that call is built
        fallback == /\ out.aiCalls # <<>>
                    /\ ~PromptRaises(message_text, out.aiCalls[1])
    IN  IF message_text = "" THEN FALSE
        ELSE IF check_if_summary_requested_table[message_text]
        THEN session_id \in DOMAIN mem.conversations /\ mem.conversations[session_id] # <<>>
        ELSE IF detected_intent = "knowledge" THEN TRUE
        ELSE IF \E indicator \in knowledge_question_indicators : Contains(text_lower, indicator)
        THEN TRUE
        ELSE IF \E keyword \in new_appointment_keywords : Contains(text_lower, keyword)
        THEN fallback
        ELSE IF detected_intent \in AppointmentIntents /\ detected_intent # current_intent
        THEN fallback
        ELSE IF Truthy(current_phase) /\ current_phase # "init" /\ current_intent \in AppointmentIntents
        THEN fallback
        ELSE IF /\ Truthy(temp_entities.date) \/ Truthy(temp_entities.time)
                /\ Truthy(session_id)
                /\ previous_intent \in {"schedule_appointment", "cancel_appointment", "check_availability"}
        THEN fallback
        ELSE IF detected_intent = "unknown" /\ Len(Split(message_text)) > 3
        THEN TRUE
        ELSE IF detected_intent \in AppointmentIntents
        THEN fallback
        ELSE TRUE

\* a turn of process_message: whether it reaches a call of agent.run, and
\* what it returns when the LLM answers ai
Turn(message_text, conversation_context, session_id, mem, now, ts, ai) == Call("Turn", <<message_text, conversation_context, session_id, mem, now, ts, ai>>)

Turn_body(message_text, conversation_context, session_id, mem, now, ts, ai) ==
    LET out == process_message(message_text, conversation_context, session_id, FALSE, mem,
                               now, ts, ai)
    IN  [calls |-> CallsAgent(message_text, conversation_context, session_id, mem, now, out),
         out   |-> out]

(***************************************************************************)
(* Call applies the operator named f to the arguments a.  The operators    *)
(* above that are defined through it are applied by name, as Python        *)
(* resolves a function by name when it is called; TLC then works out each  *)
(* of their bodies once, not once for every place that uses it.            *)
(***************************************************************************)
Call(f, a) ==
    CASE f = "AddDays" -> AddDays_body(a[1], a[2])
      [] f = "identify_intent" -> identify_intent_body(a[1])
      [] f = "DigitsAt" -> DigitsAt_body(a[1], a[2], a[3])
      [] f = "TimeTry" -> TimeTry_body(a[1], a[2], a[3], a[4], a[5], a[6])
      [] f = "Hour12At" -> Hour12At_body(a[1], a[2])
      [] f = "_extract_time" -> _extract_time_body(a[1])
      [] f = "MonthDayAt" -> MonthDayAt_body(a[1], a[2], a[3], a[4])
      [] f = "DayMonthAt" -> DayMonthAt_body(a[1], a[2], a[3], a[4])
      [] f = "DateForMonth" -> DateForMonth_body(a[1], a[2], a[3], a[4])
      [] f = "_extract_date" -> _extract_date_body(a[1], a[2])
      [] f = "NameAt" -> NameAt_body(a[1], a[2], a[3])
      [] f = "NameFrom" -> NameFrom_body(a[1])
      [] f = "extractor_extract_entities" -> extractor_extract_entities_body(a[1], a[2])
      [] f = "IsWordChar" -> IsWordChar_body(a[1])
      [] f = "ContainsSpaced" -> ContainsSpaced_body(a[1], a[2], a[3])
      [] f = "OffsetAt" -> OffsetAt_body(a[1], a[2], a[3], a[4])
      [] f = "parse_relative_date" -> parse_relative_date_body(a[1], a[2])
      [] f = "FallbackSearch" -> FallbackSearch_body(a[1], a[2], a[3])
      [] f = "enhance_entity_extraction" -> enhance_entity_extraction_body(a[1], a[2])
      [] f = "extract_entities" -> extract_entities_body(a[1], a[2])
      [] f = "IsFlexibleTime" -> IsFlexibleTime_body(a[1])
      [] f = "ChosenTimeAt" -> ChosenTimeAt_body(a[1], a[2])
      [] f = "PhaseStep" -> PhaseStep_body(a[1], a[2], a[3], a[4], a[5])
      [] f = "process_appointment_intent" -> process_appointment_intent_body(a[1], a[2], a[3])
      [] f = "Sanitize" -> Sanitize_body(a[1], a[2])
      [] f = "extract_entities_with_ai" -> extract_entities_with_ai_body(a[1], a[2], a[3])
      [] f = "get_previous_intent" -> get_previous_intent_body(a[1], a[2], a[3])
      [] f = "WithIntent" -> WithIntent_body(a[1], a[2])
      [] f = "MissingEntities" -> MissingEntities_body(a[1], a[2])
      [] f = "IsNameReply" -> IsNameReply_body(a[1], a[2], a[3])
      [] f = "MergeInto" -> MergeInto_body(a[1], a[2], a[3], a[4])
      [] f = "handle_appointment_query" -> handle_appointment_query_body(a[1], a[2], a[3], a[4], a[5], a[6], a[7])
      [] f = "handle_knowledge_query" -> handle_knowledge_query_body(a[1], a[2], a[3], a[4], a[5], a[6], a[7])
      [] f = "WithDoctor" -> WithDoctor_body(a[1], a[2])
      [] f = "WithSwitch" -> WithSwitch_body(a[1], a[2])
      [] f = "process_message" -> process_message_body(a[1], a[2], a[3], a[4], a[5], a[6], a[7], a[8])
      [] f = "CallsAgent" -> CallsAgent_body(a[1], a[2], a[3], a[4], a[5], a[6])
      [] f = "Turn" -> Turn_body(a[1], a[2], a[3], a[4], a[5], a[6], a[7])

(***************************************************************************)
(* The conversations explored                                              *)
(***************************************************************************)
\* turns of one conversation
MaxTurns == 2

\* the session id websocket_endpoint gives a connection
Sessions == {"ws_1"}

\* what the LLM answers in a turn
AIOutcomes ==
    {[intent |-> "schedule_appointment", answer |-> "It is a network of artificial neurons. ",
      extract |-> [kind |-> "json", fields |-> [person |-> "Alice", date |-> "5pm", time |-> "whenever"]]],
     [intent |-> "general_knowledge", answer |-> Raises,
      extract |-> [kind |-> "raise", fields |-> EmptyDict]]}

Slots(person, date, time) == [person |-> person, date |-> date, time |-> time]

\* the context a client sends along with its first message
ClientContexts ==
    {EmptyDict,
     [intent |-> "schedule_appointment", phase |-> "confirming"] @@ Slots("Dr. Smith", "2025-06-10", "14:00"),
     [intent |-> "cancel_appointment", phase |-> "confirming_cancel"] @@ Slots("Dr. Smith", "2025-06-10", "14:00"),
     [intent |-> "check_availability", phase |-> "showing_availability",
      person |-> "Dr. Smith", date |-> "2025-06-10"],
     [intent |-> "schedule_appointment", phase |-> "asking_time",
      person |-> "Dr. Smith", date |-> "2025-06-10"],
     [intent |-> "schedule_appointment", phase |-> "init", person |-> "Dr. Smith"],
     [intent |-> "schedule_appointment", phase |-> "rescheduling"]}

\* datetime.now().isoformat(): the day, and a second for every turn so far
Timestamp(now, t) == IsoDate(now.y, now.m, now.d) \o "T10:00:" \o Pad2(t)

(***************************************************************************)
(* State machine                                                           *)
(***************************************************************************)
NoResult == [response |-> None]

Init ==
    /\ today \in Todays
    /\ sid \in Sessions
    /\ ctx = EmptyDict
    /\ memory = EmptyMemory
    /\ lastText = None
    /\ inCtx = EmptyDict
    /\ lastResult = NoResult
    /\ aiCalls = <<>>
    /\ dbCalls = <<>>
    /\ clock = 0
    /\ said = <<>>

\* one pass of the loop of websocket_endpoint: the client's context is merged
\* into the stored one, the message is processed, and the context of the
\* result, when it has one, is stored.  An exception of process_message ends
\* the handler: the connection is gone and the next one starts empty.
websocket_endpoint(text, client_context, is_speech, ai) ==
    LET conversation_context == client_context @@ ctx
        out == process_message(text, conversation_context, sid, is_speech, memory, today,
                               Timestamp(today, clock), ai)
    IN  /\ clock < MaxTurns
        /\ clock > 0 => client_context = EmptyDict
        /\ clock' = clock + 1
        /\ lastText' = text
        /\ inCtx' = conversation_context
        /\ memory' = out.memory
        /\ aiCalls' = out.aiCalls
        /\ dbCalls' = out.calls
        /\ lastResult' = IF out.raised THEN [raised |-> TRUE] ELSE out.result
        /\ ctx' = IF out.raised THEN EmptyDict
                  ELSE IF "context" \in DOMAIN out.result THEN out.result.context
                  ELSE conversation_context
        /\ UNCHANGED <<today, sid, said>>

Next ==
    \E text \in Vocabulary, client_context \in ClientContexts, ai \in AIOutcomes :
        websocket_endpoint(text, client_context, FALSE, ai)

Spec == Init /\ [][Next]_vars

(***************************************************************************)
(* The scripted conversation: the four replies of the happy path, fed to   *)
(* handle_appointment_query turn by turn, on any of NumHappyDays days,      *)
(* with or without a session id, whatever the LLM would answer.            *)
(***************************************************************************)
\* answers of the LLM that name no value
NoValueReplies ==
    {[kind |-> "raise", fields |-> EmptyDict],
     [kind |-> "json", fields |-> [person |-> None, date |-> None, time |-> None]],
     [kind |-> "loose", fields |-> EmptyDict]}

InitHappy ==
    /\ today \in HappyDays
    /\ sid \in {None, "ws_1"}
    /\ ctx = [intent |-> "schedule_appointment", phase |-> "init"]
    /\ memory = EmptyMemory
    /\ lastText = None
    /\ inCtx = EmptyDict
    /\ lastResult = NoResult
    /\ aiCalls = <<>>
    /\ dbCalls = <<>>
    /\ clock = 0
    /\ said = <<>>

\* the next reply of the script goes through handle_appointment_query; a
\* KeyError ends the turn with no result and leaves the context as it was
ScriptedTurn(reply) ==
    LET text == Script[Len(said) + 1]
        out  == handle_appointment_query(text, ctx, sid, memory, today,
                                         Timestamp(today, clock), reply)
    IN  /\ Len(said) < Len(Script)
        /\ clock' = clock + 1
        /\ lastText' = text
        /\ inCtx' = ctx
        /\ memory' = out.memory
        /\ aiCalls' = out.aiCalls
        /\ dbCalls' = out.calls
        /\ lastResult' = IF out.raised THEN [raised |-> TRUE] ELSE out.result
        /\ ctx' = IF out.raised THEN ctx ELSE out.result.context
        /\ said' = Append(said, [user |-> text,
                                 phase |-> IF out.raised THEN Raises
                                           ELSE Get(out.result.context, "phase")])
        /\ UNCHANGED <<today, sid>>

NextHappy == \E reply \in NoValueReplies : ScriptedTurn(reply)

SpecHappy == InitHappy /\ [][NextHappy]_vars

(***************************************************************************)
(* What the last turn started from and what it returned                    *)
(***************************************************************************)
\* the last turn returned a dict with a context
Returned == lastText # None /\ "context" \in DOMAIN lastResult

\* the last turn ended in a KeyError
Crashed == "raised" \in DOMAIN lastResult

In(key) == Get(inCtx, key)

Out(key) == Get(lastResult.context, key)

StartedAt(intent, phase) == lastText # None /\ In("intent") = intent /\ In("phase") = phase

HeldSlots == Truthy(In("person")) /\ Truthy(In("date")) /\ Truthy(In("time"))

\* the affirmative words the specification lists
AffirmativeWords ==
    {"yes", "correct", "right", "ok", "okay", "sure", "yeah", "yep", "do that", "please"}

Affirmative(text) == \E w \in AffirmativeWords : Contains(Lower(text), w)

\* the date of the day after now, written as the context holds dates
TomorrowOf(now) == format_date_for_display(AddDays(now, 1))

(***************************************************************************)
(* C1  Happy path.  From (schedule_appointment, init) with no slots, the   *)
(* replies "John", "tomorrow", "3pm", "yes" take handle_appointment_query  *)
(* through asking_date, asking_time, confirming to completed, on every day *)
(* and whatever the LLM answers, and leave person "John", tomorrow's date  *)
(* and time "15:00".  (SpecHappy)                                          *)
(***************************************************************************)
HappyPhases == <<"asking_date", "asking_time", "confirming", "completed">>

C1_HappyPath ==
    /\ \A i \in 1..Len(said) : said[i].phase = HappyPhases[i]
    /\ Len(said) = Len(Script) =>
          /\ Get(ctx, "intent") = "schedule_appointment"
          /\ Get(ctx, "phase") = "completed"
          /\ Get(ctx, "person") = "John"
          /\ Get(ctx, "date") = TomorrowOf(today)
          /\ Get(ctx, "time") = "15:00"

\* the script has run to its end on the last day of the year
C1_Witness ==
    /\ Len(said) = Len(Script)
    /\ today = [y |-> 2025, m |-> 12, d |-> 31]
    /\ Get(ctx, "date") = "Thursday, January 01, 2026"
    /\ Get(ctx, "phase") = "completed"

\* the phases of each intent's track
TrackPhases ==
    [schedule_appointment |-> {"asking_person", "asking_date", "asking_time",
                               "confirming", "asking_change"},
     cancel_appointment   |-> {"asking_person_cancel", "asking_date_cancel", "asking_time_cancel",
                               "confirming_cancel", "asking_change_cancel"},
     check_availability   |-> {"asking_person_check", "asking_date_check", "showing_availability"},
     list_appointments    |-> {}]

\* a context whose phase, if it has one, is init, completed or one of its intent's
ValidPhase(c) ==
    \/ Get(c, "phase") = None
    \/ Get(c, "phase") \in {"init", "completed"}
    \/ /\ Get(c, "intent") \in DOMAIN TrackPhases
       /\ Get(c, "phase") \in TrackPhases[Get(c, "intent")]

(***************************************************************************)
(* C2  Every turn that takes confirming to completed makes exactly one     *)
(* add_appointment call, every turn that takes confirming_cancel to        *)
(* completed makes exactly one cancel_appointment call, both with the      *)
(* slots the context holds, and no other turn makes a persistence call.    *)
(***************************************************************************)
C2_OnePersistenceCall ==
    Returned =>
        IF StartedAt("schedule_appointment", "confirming") /\ Out("phase") = "completed"
        THEN dbCalls = <<[op |-> "add_appointment", person |-> Out("person"),
                          date |-> Out("date"), time |-> Out("time")]>>
        ELSE IF StartedAt("cancel_appointment", "confirming_cancel") /\ Out("phase") = "completed"
        THEN dbCalls = <<[op |-> "cancel_appointment", person |-> Out("person"),
                          date |-> Out("date"), time |-> Out("time")]>>
        ELSE dbCalls = <<>>

(***************************************************************************)
(* C3  At confirming with person, date and time held, and likewise at      *)
(* confirming_cancel, a reply containing one of the affirmative words      *)
(* yes, correct, right, ok, okay, sure, yeah, yep, do that, please ends    *)
(* the turn in completed.                                                  *)
(***************************************************************************)
C3_AffirmativeFinalizes ==
    /\ HeldSlots /\ Affirmative(lastText)
    /\ \/ StartedAt("schedule_appointment", "confirming")
       \/ StartedAt("cancel_appointment", "confirming_cancel")
    => Returned /\ Out("phase") = "completed"

(***************************************************************************)
(* C4  A reply with no affirmative word takes (schedule_appointment,       *)
(* confirming) to asking_change and (cancel_appointment,                   *)
(* confirming_cancel) to asking_change_cancel.                             *)
(***************************************************************************)
C4_NegativeAsksChange ==
    lastText \notin {None, ""} /\ ~Affirmative(lastText) =>
        /\ StartedAt("schedule_appointment", "confirming")
              => Returned /\ Out("phase") = "asking_change"
        /\ StartedAt("cancel_appointment", "confirming_cancel")
              => Returned /\ Out("phase") = "asking_change_cancel"

(***************************************************************************)
(* C5  A turn that starts at (check_availability, showing_availability)    *)
(* with person and date held and whose reply is "2:00 pm works" ends at    *)
(* (schedule_appointment, confirming) with time "14:00".                   *)
(***************************************************************************)
C5_SlotChoiceSchedules ==
    /\ StartedAt("check_availability", "showing_availability")
    /\ Truthy(In("person")) /\ Truthy(In("date"))
    /\ lastText = "2:00 pm works"
    => /\ Returned
       /\ Out("intent") = "schedule_appointment"
       /\ Out("phase") = "confirming"
       /\ Out("time") = "14:00"

(***************************************************************************)
(* C6  A turn of process_message that starts from a context in phase       *)
(* completed returns no slot value of the completed appointment, unless    *)
(* the utterance itself supplies that value.                               *)
(***************************************************************************)
C6_CompletedDiscarded ==
    lastText \notin {None, ""} /\ In("phase") = "completed" /\ Returned =>
        \A key \in Range(SlotKeys) :
            \/ ~Truthy(Out(key))
            \/ Out(key) # In(key)
            \/ Out(key) = Get(extract_entities_table[today][lastText], key)

\* process_message's own rule for a doctor, which is no extraction
SeesDoctor(text) ==
    \E p \in {"see a doctor", "see the doctor", "need a doctor", "need to see a doctor"} :
        Contains(Lower(text), p)

\* the turn ends with the person it started with, if it ends with any
PersonKept ==
    \/ ~Truthy(Out("person"))
    \/ Out("person") = In("person")
    \/ SeesDoctor(lastText) /\ Out("person") = "Doctor"

\* the last turn started with a person held, in none of these phases
HeldPersonOutside(phases) ==
    /\ lastText \notin {None, ""} /\ Returned
    /\ Truthy(In("person"))
    /\ In("phase") \notin phases

(***************************************************************************)
(* C7  A turn that starts with a person held and in a phase other than     *)
(* asking_person, asking_person_cancel and asking_person_check ends with   *)
(* that person, if it ends with any: no extraction replaces it.  (A turn   *)
(* from completed starts a new conversation and is left out.)              *)
(***************************************************************************)
C7_PersonGuard ==
    HeldPersonOutside(person_asking_phases \cup {"completed"}) => PersonKept

(***************************************************************************)
(* C8  A turn that starts at confirming or confirming_cancel with date and *)
(* time held ends with that date and that time, if it ends with any; so a  *)
(* turn that finalizes does it with the date and time the confirmation     *)
(* prompt showed.                                                          *)
(***************************************************************************)
C8_ConfirmedSlotsKept ==
    /\ lastText \notin {None, ""} /\ Returned
    /\ In("phase") \in {"confirming", "confirming_cancel"}
    /\ Truthy(In("date")) /\ Truthy(In("time"))
    => /\ Truthy(Out("date")) => Out("date") = In("date")
       /\ Truthy(Out("time")) => Out("time") = In("time")

(***************************************************************************)
(* C9  A turn that starts from an appointment intent with a phase that is  *)
(* not a phase of that intent's track does not crash and ends with phase   *)
(* init.                                                                   *)
(***************************************************************************)
C9_ForeignPhaseReset ==
    /\ lastText \notin {None, ""}
    /\ In("intent") \in AppointmentIntents
    /\ ~ValidPhase(inCtx)
    => ~Crashed /\ Returned /\ Out("phase") = "init"

(***************************************************************************)
(* C10  A turn that starts from a context with a valid phase (init,        *)
(* completed, or a phase of its intent's track; list_appointments has      *)
(* none) or with no phase ends in a context with a valid phase.            *)
(***************************************************************************)
C10_PhaseInvariant ==
    lastText # None /\ Returned /\ ValidPhase(inCtx) => ValidPhase(lastResult.context)

\* the utterance asks for a new, another or a different appointment
AsksNewAppointment(text) ==
    \E keyword \in new_appointment_keywords : Contains(Lower(text), keyword)

(***************************************************************************)
(* C11  A turn that starts from a context with an intent, in a phase other *)
(* than completed, returns a context with an intent: a knowledge question  *)
(* or a summary request in the middle of an appointment flow included.     *)
(***************************************************************************)
C11_IntentKept ==
    /\ lastText \notin {None, ""} /\ Returned
    /\ Truthy(In("intent"))
    /\ In("phase") # "completed"
    => Truthy(Out("intent"))

(***************************************************************************)
(* C12  But for a turn that starts from completed and a turn that asks for *)
(* a new, another or a different appointment, every slot the incoming      *)
(* context holds is in the returned context with the same value.           *)
(***************************************************************************)
C12_SlotsKept ==
    /\ lastText \notin {None, ""} /\ Returned
    /\ In("phase") # "completed"
    /\ ~AsksNewAppointment(lastText)
    => \A k \in Range(SlotKeys) : Truthy(In(k)) => Out(k) = In(k)

(***************************************************************************)
(* The classifier on its own: utterances that match no family, one family  *)
(* and several families go through identify_intent one after another.      *)
(***************************************************************************)
MaxClassified == 2

IntentUtterances ==
    Vocabulary \cup
    {"hello there",
     "what is the availability of John",
     "Explain how to book an appointment",
     "check availability and cancel an appointment",
     "is John available to make time for me",
     "when can we meet about my schedule",
     "cancel an appointment and book one with John",
     "I want to cancel my appointments",
     "schedule a meeting about my schedule",
     "Book an appointment",
     "list appointments",
     "tell me more about how to cancel an appointment or view all appointments"}

InitIntent ==
    /\ today = BaseDay
    /\ sid = None
    /\ ctx = EmptyDict
    /\ memory = EmptyMemory
    /\ lastText = None
    /\ inCtx = EmptyDict
    /\ lastResult = NoResult
    /\ aiCalls = <<>>
    /\ dbCalls = <<>>
    /\ clock = 0
    /\ said = <<>>

\* one utterance is classified
Classify(text) ==
    LET intent == identify_intent(text)
    IN  /\ clock < MaxClassified
        /\ clock' = clock + 1
        /\ lastText' = text
        /\ lastResult' = [intent |-> intent]
        /\ said' = Append(said, [user |-> text, intent |-> intent])
        /\ UNCHANGED <<today, sid, ctx, memory, inCtx, aiCalls, dbCalls>>

NextIntent == \E text \in IntentUtterances : Classify(text)

SpecIntent == InitIntent /\ [][NextIntent]_vars

\* the pattern families in the order of their precedence
IntentFamilies ==
    << [label |-> "knowledge",            patterns |-> knowledge_patterns],
       [label |-> "check_availability",   patterns |-> check_availability_patterns],
       [label |-> "cancel_appointment",   patterns |-> cancel_patterns],
       [label |-> "schedule_appointment", patterns |-> schedule_patterns],
       [label |-> "list_appointments",    patterns |-> list_appointments_patterns] >>

\* the families with a pattern that matches the text
MatchedFamilies(text) ==
    {i \in 1..Len(IntentFamilies) : MatchAny(Lower(text), IntentFamilies[i].patterns)}

(***************************************************************************)
(* C13  identify_intent returns the label of the first family, in the      *)
(* order knowledge, check_availability, cancel_appointment,                *)
(* schedule_appointment, list_appointments, that has a matching pattern,   *)
(* and unknown exactly when no family has one.                             *)
(***************************************************************************)
C13_IntentPrecedence ==
    \A i \in 1..Len(said) :
        LET matched == MatchedFamilies(said[i].user)
        IN  /\ said[i].intent = "unknown" <=> matched = {}
            /\ matched # {} =>
                   /\ said[i].intent = IntentFamilies[CHOOSE m \in matched : \A n \in matched : m <= n].label
                   /\ \A n \in matched : said[i].intent # IntentFamilies[n].label
                                          => \E m \in matched : m < n

\* every family has won over every family behind it that matched as well,
\* and an utterance with no match has been classified
C13_Witness ==
    /\ Len(said) = MaxClassified
    /\ MatchedFamilies(said[1].user) = {4, 5}
    /\ said[1].intent = "schedule_appointment"
    /\ MatchedFamilies(said[2].user) = {1, 3, 5}
    /\ said[2].intent = "knowledge"

(***************************************************************************)
(* The dialogue state machine on its own: process_appointment_intent is    *)
(* applied, step after step, to a context that holds the entities of the   *)
(* turn already.  A context with phase completed is not handed to it:      *)
(* process_message starts from an empty context then.                      *)
(***************************************************************************)
MaxSteps == 2

MachineUtterances ==
    {"yes", "ok", "do that", "no", "John", "cancel it", "cancel that appointment",
     "change the time", "a different day", "another person", "whenever",
     "the time 2:00 pm works", "incorrect", "no, that's not right", "no please don't"}

\* the subsets of the three slots, with a value for each
SlotFills ==
    {[k \in held |-> Slots("Dr. Smith", "2025-06-10", "14:00")[k]] :
        held \in SUBSET {"person", "date", "time"}}

\* the contexts a conversation can be in when the state machine is called:
\* an appointment intent, no phase, init or a phase of the intent's track,
\* and any of the slots
MachineContexts ==
    {[intent |-> intent] @@ fill :
        intent \in AppointmentIntents \ {"list_appointments"}, fill \in SlotFills}
    \cup {[intent |-> intent, phase |-> phase] @@ fill :
            intent \in AppointmentIntents \ {"list_appointments"},
            phase \in {"init"} \cup TrackPhases["schedule_appointment"]
                          \cup TrackPhases["cancel_appointment"]
                          \cup TrackPhases["check_availability"],
            fill \in SlotFills}
    \cup {[intent |-> "list_appointments"], [intent |-> "list_appointments", phase |-> "init"]}

InitMachine ==
    /\ today = BaseDay
    /\ sid = None
    /\ ctx \in {c \in MachineContexts : ValidPhase(c)}
    /\ memory = EmptyMemory
    /\ lastText = None
    /\ inCtx = EmptyDict
    /\ lastResult = NoResult
    /\ aiCalls = <<>>
    /\ dbCalls = <<>>
    /\ clock = 0
    /\ said = <<>>

\* one call of the state machine; a KeyError leaves no result and the
\* context as the caller holds it
MachineStep(text) ==
    LET out == process_appointment_intent(text, ctx, Timestamp(today, clock))
    IN  /\ clock < MaxSteps
        /\ Get(ctx, "phase") # "completed"
        /\ clock' = clock + 1
        /\ lastText' = text
        /\ inCtx' = ctx
        /\ dbCalls' = out.calls
        /\ lastResult' = IF out.raised THEN [raised |-> TRUE]
                          ELSE [response |-> out.response, context |-> out.context]
        /\ ctx' = IF out.raised THEN ctx ELSE out.context
        /\ UNCHANGED <<today, sid, memory, aiCalls, said>>

NextMachine == \E text \in MachineUtterances : MachineStep(text)

SpecMachine == InitMachine /\ [][NextMachine]_vars

\* every asking phase: the slot it collects, the slots its track has
\* collected before it, and the phase that follows it in its track
AskingPhases ==
    [asking_person        |-> [slot |-> "person", before |-> {}, next |-> "asking_date"],
     asking_date          |-> [slot |-> "date", before |-> {"person"}, next |-> "asking_time"],
     asking_time          |-> [slot |-> "time", before |-> {"person", "date"}, next |-> "confirming"],
     asking_person_cancel |-> [slot |-> "person", before |-> {}, next |-> "asking_date_cancel"],
     asking_date_cancel   |-> [slot |-> "date", before |-> {"person"}, next |-> "asking_time_cancel"],
     asking_time_cancel   |-> [slot |-> "time", before |-> {"person", "date"},
                               next |-> "confirming_cancel"],
     asking_person_check  |-> [slot |-> "person", before |-> {}, next |-> "asking_date_check"],
     asking_date_check    |-> [slot |-> "date", before |-> {"person"},
                               next |-> "showing_availability"]]

\* the last step started in an asking phase of its intent's track, with the
\* slots of the earlier phases held, and the reply was not the cancel shortcut
AskedForSlot ==
    /\ lastText # None
    /\ In("phase") \in DOMAIN AskingPhases
    /\ ValidPhase(inCtx)
    /\ \A k \in AskingPhases[In("phase")].before : Truthy(In(k))
    /\ ~IsCancelCurrent(lastText)

(***************************************************************************)
(* C14  A step of the state machine that starts in an asking phase returns *)
(* a reply, and ends in the next phase of the track if the context holds   *)
(* the slot the phase collects, and in the same phase if it does not.      *)
(***************************************************************************)
C14_SlotDrivenTransition ==
    AskedForSlot =>
        /\ Returned
        /\ Out("phase") = IF Truthy(Out(AskingPhases[In("phase")].slot))
                          THEN AskingPhases[In("phase")].next
                          ELSE In("phase")

\* the keyword families of a change request, with the slot each one names
ChangeFamilies ==
    << [words |-> {"person", "who", "name"}, slot |-> "person"],
       [words |-> {"date", "day", "when"},   slot |-> "date"],
       [words |-> {"time", "hour"},          slot |-> "time"] >>

\* the families with a word in the text
NamedFamilies(text) ==
    {i \in 1..Len(ChangeFamilies) : \E w \in ChangeFamilies[i].words : Contains(Lower(text), w)}

\* the slot a change request names: that of the first family with a word in it
ChangedSlot(text) ==
    ChangeFamilies[CHOOSE i \in NamedFamilies(text) : \A j \in NamedFamilies(text) : i <= j].slot

\* the last step started in a change phase of its track and the reply named a slot
AskedForChange ==
    /\ lastText # None
    /\ In("phase") \in {"asking_change", "asking_change_cancel"}
    /\ ValidPhase(inCtx)
    /\ NamedFamilies(lastText) # {}
    /\ ~IsCancelCurrent(lastText)

(***************************************************************************)
(* C15  A step that starts in asking_change or asking_change_cancel with a *)
(* reply that names a slot (person/who/name, date/day/when, time/hour)     *)
(* clears that slot, moves to the phase that asks for it, and leaves the   *)
(* two other slots and the intent as they were.                            *)
(***************************************************************************)
C15_ChangeClearsOneSlot ==
    AskedForChange =>
        LET slot == ChangedSlot(lastText)
        IN  /\ Returned
            /\ ~Truthy(Out(slot))
            /\ Out("phase") = "asking_" \o slot \o
                                 (IF In("intent") = "cancel_appointment" THEN "_cancel" ELSE "")
            /\ \A k \in Range(SlotKeys) \ {slot} : Out(k) = In(k)
            /\ Out("intent") = In("intent")

(***************************************************************************)
(* C16  A step that starts at (cancel_appointment, confirming_cancel) with *)
(* the person and the date held, as the cancel track and the cancel        *)
(* shortcut both leave them, and whose reply holds an affirmative word,    *)
(* ends in phase completed.                                                *)
(***************************************************************************)
C16_AffirmativeCancels ==
    /\ StartedAt("cancel_appointment", "confirming_cancel")
    /\ Truthy(In("person")) /\ Truthy(In("date"))
    /\ Affirmative(lastText)
    /\ ~IsCancelCurrent(lastText)
    => Returned /\ Out("phase") = "completed"

\* the utterance says "cancel this appointment", "cancel that appointment" or "cancel it"
SaysCancelThis(text) ==
    \E p \in {"cancel this appointment", "cancel that appointment", "cancel it"} :
        Contains(Lower(text), p)

(***************************************************************************)
(* C17  A turn of process_message that starts with person and date held,   *)
(* in any phase but completed, and whose utterance says "cancel this       *)
(* appointment", "cancel that appointment" or "cancel it", ends in         *)
(* (cancel_appointment, confirming_cancel) with the same person and date.  *)
(***************************************************************************)
C17_CancelShortcut ==
    /\ lastText # None /\ SaysCancelThis(lastText)
    /\ Truthy(In("person")) /\ Truthy(In("date"))
    /\ In("phase") # "completed"
    => /\ Returned
       /\ Out("intent") = "cancel_appointment"
       /\ Out("phase") = "confirming_cancel"
       /\ Out("person") = In("person")
       /\ Out("date") = In("date")

\* the last step changed the intent of the context it was given
IntentRewritten == lastText # None /\ Returned /\ Out("intent") # In("intent")

\* the step was the choice of a slot: showing_availability to (schedule_appointment, confirming)
SlotChosen ==
    /\ In("intent") = "check_availability" /\ In("phase") = "showing_availability"
    /\ Out("intent") = "schedule_appointment" /\ Out("phase") = "confirming"

\* the step was the cancel shortcut: a cancel-current phrase with person and date held
ShortcutTaken ==
    /\ \E p \in cancel_current_patterns : Contains(Lower(lastText), p)
    /\ Truthy(In("person")) /\ Truthy(In("date"))
    /\ Out("intent") = "cancel_appointment" /\ Out("phase") = "confirming_cancel"

(***************************************************************************)
(* C18  A step of the state machine that changes the intent of its context *)
(* is the step from showing_availability to (schedule_appointment,         *)
(* confirming).                                                            *)
(***************************************************************************)
C18_OnlySlotChoiceRewritesIntent == IntentRewritten => SlotChosen

(***************************************************************************)
(* C18, amended  A step of the state machine that changes the intent of    *)
(* its context is the cancel shortcut, which sets (cancel_appointment,     *)
(* confirming_cancel) when the reply holds a cancel-current phrase and the *)
(* context holds person and date, or the step from showing_availability to *)
(* (schedule_appointment, confirming).                                     *)
(***************************************************************************)
C18_ShortcutOrSlotChoiceRewritesIntent == IntentRewritten => ShortcutTaken \/ SlotChosen

\* the cancel shortcut has turned a scheduling context into a cancellation
C18_Witness ==
    /\ IntentRewritten
    /\ In("intent") = "schedule_appointment" /\ In("phase") = "asking_time"
    /\ lastText = "cancel it"
    /\ ShortcutTaken

\* the completion markers of a context
Markers == {"ready_for_new_topic", "appointment_completed_at"}

(***************************************************************************)
(* C19  A context the state machine returns with phase completed holds     *)
(* ready_for_new_topic = True and, as appointment_completed_at, the time   *)
(* of the step; a context it returns with another phase holds neither      *)
(* marker.                                                                 *)
(***************************************************************************)
C19_CompletionMarkers ==
    lastText # None /\ Returned =>
        IF Out("phase") = "completed"
        THEN /\ Out("ready_for_new_topic") = "True"
             /\ Out("appointment_completed_at") = Timestamp(today, clock - 1)
        ELSE Markers \cap DOMAIN lastResult.context = {}

\* a cancellation has been finalized in the second step, after a first step
\* that ended with no marker
C19_Witness ==
    /\ clock = 2 /\ Returned
    /\ StartedAt("cancel_appointment", "confirming_cancel")
    /\ Markers \cap DOMAIN inCtx = {}
    /\ Out("phase") = "completed"
    /\ Markers \subseteq DOMAIN lastResult.context

\* the reply of an AI call that failed
FailedReply == [kind |-> "raise", fields |-> EmptyDict]

\* the turn called the AI fallback, for the slots listed in aiCalls[1]
FallbackCalled == lastText # None /\ aiCalls # <<>>

(***************************************************************************)
(* C21  When the AI fallback call of a turn fails, extract_entities_with_ai *)
(* returns null for every slot it was asked for and raises nothing, the    *)
(* slots that were missing stay null in the context, and the turn still    *)
(* returns a reply.                                                        *)
(***************************************************************************)
C21_FailureDegrades ==
    FallbackCalled =>
        LET out == extract_entities_with_ai(lastText, aiCalls[1], FailedReply)
        IN  /\ ~out.raised
            /\ out.entities = [e \in Range(aiCalls[1]) |-> None]
            /\ Returned

(***************************************************************************)
(* handle_appointment_query as /chat reaches it: every call brings the     *)
(* text and the context of the client, and the memory of the session is    *)
(* what the earlier calls have left.                                       *)
(***************************************************************************)
MaxQueries == 3

QueryTexts == {"John", "Mary", "tomorrow"}

QueryContexts ==
    {[intent |-> "schedule_appointment", phase |-> "asking_person"],
     [intent |-> "schedule_appointment", phase |-> "asking_date", person |-> "Dr. Smith"],
     [intent |-> "cancel_appointment", phase |-> "init", time |-> "3:00 PM"],
     [intent |-> "schedule_appointment", phase |-> "confirming", person |-> "Dr. Smith",
      date |-> TomorrowOf(BaseDay), time |-> "3:00 PM"]}

InitQuery ==
    /\ today = BaseDay
    /\ sid \in Sessions
    /\ ctx = EmptyDict
    /\ memory = EmptyMemory
    /\ lastText = None
    /\ inCtx = EmptyDict
    /\ lastResult = NoResult
    /\ aiCalls = <<>>
    /\ dbCalls = <<>>
    /\ clock = 0
    /\ said = <<>>

Query(text, context, reply) ==
    LET out == handle_appointment_query(text, context, sid, memory, today,
                                        Timestamp(today, clock), reply)
    IN  /\ clock < MaxQueries
        /\ clock' = clock + 1
        /\ lastText' = text
        /\ inCtx' = context
        /\ memory' = out.memory
        /\ aiCalls' = out.aiCalls
        /\ dbCalls' = out.calls
        /\ lastResult' = IF out.raised THEN [raised |-> TRUE] ELSE out.result
        /\ ctx' = IF out.raised THEN context ELSE out.result.context
        /\ said' = Append(said, [user |-> text, context |-> context])
        /\ UNCHANGED <<today, sid>>

NextQuery ==
    \E text \in QueryTexts, context \in QueryContexts, ai \in AIOutcomes :
        Query(text, context, ai.extract)

SpecQuery == InitQuery /\ [][NextQuery]_vars

\* the values the first merge loop of handle_appointment_query writes: the
\* entities of the extractor, the name a short reply is taken for, less what
\* the guards of the loop skip
Written(message_text, context0, now) ==
    LET context   == WithIntent(message_text, context0)
        extracted == extract_entities_table[now][message_text]
        named     == IsNameReply(message_text, context, MissingEntities(extracted, context))
        entities  == IF named THEN [extracted EXCEPT !.person = Capitalize(Strip(message_text))]
                     ELSE extracted
    IN  [k \in Range(SlotKeys) |->
            IF AcceptsExtracted(k, entities[k], Get(context0, "person"), Get(context0, "phase"))
            THEN entities[k] ELSE None]

\* the slots the AI fallback was asked for in the last call
Asked == IF aiCalls = <<>> THEN {} ELSE Range(aiCalls[1])

\* the context the last call would have returned had the AI found nothing
WithoutAI ==
    handle_appointment_query(lastText, inCtx, sid, EmptyMemory, today,
                             Timestamp(today, clock - 1), FailedReply).result.context

(***************************************************************************)
(* C23  handle_appointment_query calls the AI fallback at most once, only  *)
(* for slots that are empty both in the extraction of the turn and in the  *)
(* context, and never with an empty list; a slot it was not asked for ends  *)
(* the turn with the value it has without the AI.                          *)
(***************************************************************************)
C23_FallbackOnlyForMissing ==
    lastText # None =>
        /\ Len(aiCalls) <= 1
        /\ aiCalls # <<>> => Asked # {}
        /\ \A k \in Asked : /\ ~Truthy(extract_entities_table[today][lastText][k])
                            /\ ~Truthy(In(k))
        /\ Returned =>
               \A k \in Range(SlotKeys) \ Asked : Out(k) = Get(WithoutAI, k)

\* the AI fallback was asked for the time alone: the context held the
\* person, the message gave the date, and both are in the result
C23_Witness ==
    /\ Returned
    /\ lastText = "tomorrow"
    /\ In("person") = "Dr. Smith"
    /\ aiCalls = << <<"time">> >>
    /\ Out("person") = "Dr. Smith"
    /\ Out("date") = TomorrowOf(today)
    /\ ~Truthy(Out("time"))

\* what the LLM may answer to the extraction prompt
AIReplies == {ai.extract : ai \in AIOutcomes}

(***************************************************************************)
(* C24  Whatever the LLM answers, extract_entities_with_ai returns a       *)
(* result that has every slot it was asked for as a key, in which "null",  *)
(* "NULL", "unknown" and "" have become null, a date that is a time only   *)
(* has become null, a time that holds a month name or an ISO date has      *)
(* become null, and a flexible time phrase has become "first available".   *)
(***************************************************************************)
C24_Sanitized ==
    FallbackCalled =>
        \A reply \in AIReplies :
            LET out == extract_entities_with_ai(lastText, aiCalls[1], reply)
            IN  /\ ~out.raised
                /\ Range(aiCalls[1]) \subseteq DOMAIN out.entities
                /\ \A k \in Range(aiCalls[1]) :
                       LET v == Get(reply.fields, k)
                           r == out.entities[k]
                       IN  /\ v \in {None, "null", "NULL", "unknown", ""} => r = None
                           /\ k = "date" /\ v # None /\ LooksLikeTimeOnly(Lower(v)) => r = None
                           /\ k = "time" /\ v # None /\ (HasMonthWord(Lower(v)) \/ HasIsoDate(v))
                                  => r = None
                           /\ k = "time" /\ v # None /\ ~HasMonthWord(Lower(v)) /\ ~HasIsoDate(v)
                                  /\ (\E i \in 1..Len(flexible_phrases) :
                                          Contains(Lower(v), flexible_phrases[i]))
                                  => r = "first available"

\* the history of a slot in the memory of the session
History(k) == GetOr(GetOr(memory.entities, sid, EmptyDict), k, <<>>)

\* a list holds no value twice
NoDuplicates(list) == \A i, j \in 1..Len(list) : list[i] = list[j] => i = j

\* the first merge loop of handle_appointment_query, for the values w
Merged(acc, w) == MergeInto(acc, sid, w, SlotKeys)

(***************************************************************************)
(* C25  Merging the entities extracted from a message into a context and   *)
(* the memory of the session a second time changes neither the context nor *)
(* the history of any slot, and the history of a slot never holds the same *)
(* value twice.                                                            *)
(***************************************************************************)
C25_MergeIdempotent ==
    /\ \A k \in Range(SlotKeys) : NoDuplicates(History(k))
    /\ \A text \in QueryTexts, context \in QueryContexts :
           LET w    == Written(text, context, today)
               once == Merged([context |-> context, memory |-> memory], w)
           IN  Merged(once, w) = once

\* John was merged in two calls in a row and the history holds him once
C25_Witness ==
    /\ clock >= 2
    /\ said[clock].user = "John" /\ said[clock - 1].user = "John"
    /\ Written("John", said[clock].context, today)["person"] = "John"
    /\ Written("John", said[clock - 1].context, today)["person"] = "John"
    /\ History("person") = <<"John">>

(***************************************************************************)
(* C26  The history of a slot is most-recent-last: after a call that has   *)
(* written a value to a slot, the last element of the session's history of *)
(* that slot is that value, also when the value had been written before    *)
(* (John, Mary, John).                                                     *)
(***************************************************************************)
C26_MostRecentLast ==
    lastText # None =>
        \A k \in Range(SlotKeys) :
            LET v == Written(lastText, inCtx, today)[k]
            IN  v # None =>
                    /\ History(k) # <<>>
                    /\ History(k)[Len(History(k))] = v

(***************************************************************************)
(* Two connections of one session.  Each runs the loop of                  *)
(* websocket_endpoint as a task of the one event loop of uvicorn.run: a    *)
(* task waits at "await websocket.receive_text()", then runs from the      *)
(* merge of the client's context to the assignment of the result's context *)
(* (main.py 1601-1627), and waits again at "await websocket.send_text()".  *)
(* A running task keeps the event loop until it waits for something: the   *)
(* other awaits of main.py (1175, 1215, 1402-1570, 1580, 1617) call        *)
(* coroutines of main.py, and none of these waits.  agent.run returns when *)
(* the LLM has answered: main.py gives it no timeout (lines 556, 624,      *)
(* 1298, 1540).                                                            *)
(***************************************************************************)
MaxServed == 3

Connections == {1, 2}

TurnTexts == {"John", "tomorrow", "what is a neural network"}

\* agent.run is awaited, and the event loop runs other tasks until the LLM
\* has answered
AgentRunAwaited == TRUE

\* "agent.run(prompt)" is a plain call (main.py 556, 624, 1298, 1540): the
\* event loop runs nothing else until it returns
AgentRunYields == FALSE

Task(c) == said[c]

\* the task has read the context and the memory and has not written yet: it
\* runs, or it has called agent.run and has no answer yet
InSection(c) == Task(c).pc \in {"running", "awaiting"}

\* the task keeps the event loop
HoldsLoop(c) == Task(c).pc = "running" \/ (Task(c).pc = "awaiting" /\ ~AgentRunYields)

\* the turns that have been received
Started == clock + Cardinality({c \in Connections : Task(c).pc \in {"ready", "running", "awaiting"}})

InitTurns ==
    /\ today = BaseDay
    /\ sid \in Sessions
    /\ ctx = EmptyDict
    /\ memory = EmptyMemory
    /\ lastText = None
    /\ inCtx = EmptyDict
    /\ lastResult = NoResult
    /\ aiCalls = <<>>
    /\ dbCalls = <<>>
    /\ clock = 0
    /\ said = [c \in Connections |->
                  [pc |-> "receive", text |-> None, context |-> EmptyDict, read |-> None]]

\* "data = await websocket.receive_text()" returns a message
Receive(c, text) ==
    /\ Task(c).pc = "receive"
    /\ Started < MaxServed
    /\ said' = [said EXCEPT ![c].pc = "ready", ![c].text = text]
    /\ UNCHANGED <<today, sid, ctx, memory, lastText, inCtx, lastResult, aiCalls, dbCalls, clock>>

\* the event loop, which no task keeps, resumes the task: it reads its
\* context and the memory of the session
Enter(c) ==
    /\ Task(c).pc = "ready"
    /\ \A d \in Connections : ~HoldsLoop(d)
    /\ said' = [said EXCEPT ![c].read = memory, ![c].pc = "running"]
    /\ UNCHANGED <<today, sid, ctx, memory, lastText, inCtx, lastResult, aiCalls, dbCalls, clock>>

\* the end of the turn of task c: out is what process_message returns, and
\* the context of the result becomes the context of the connection
EndTurn(c, out) ==
    LET kept == IF out.raised THEN EmptyDict
                ELSE IF "context" \in DOMAIN out.result THEN out.result.context
                ELSE Task(c).context
    IN  /\ clock' = clock + 1
        /\ lastText' = Task(c).text
        /\ inCtx' = Task(c).context
        /\ memory' = out.memory
        /\ aiCalls' = out.aiCalls
        /\ dbCalls' = out.calls
        /\ lastResult' = IF out.raised THEN [raised |-> TRUE] ELSE out.result
        /\ ctx' = kept
        /\ said' = [said EXCEPT ![c].pc = IF out.raised THEN "closed" ELSE "send",
                                ![c].context = kept, ![c].read = None]
        /\ UNCHANGED <<today, sid>>

\* task c goes on with the turn: a running task that reaches a call of
\* agent.run stops there for the answer; otherwise, and when the LLM has
\* answered, the task goes to the end of the turn
GoOn(c, turn) ==
    IF Task(c).pc = "running" /\ turn.calls
    THEN /\ said' = [said EXCEPT ![c].pc = "awaiting"]
         /\ UNCHANGED <<today, sid, ctx, memory, lastText, inCtx, lastResult, aiCalls,
                        dbCalls, clock>>
    ELSE EndTurn(c, turn.out)

\* the event loop runs task c, which works on what it has read; ai is what
\* the LLM answers when it is asked
Proceed(c, ai) ==
    /\ InSection(c)
    /\ \A d \in Connections \ {c} : ~HoldsLoop(d)
    /\ GoOn(c, Turn(Task(c).text, Task(c).context, sid, Task(c).read, today,
                    Timestamp(today, clock), ai))

\* "await websocket.send_text(json.dumps(result))" returns
Send(c) ==
    /\ Task(c).pc = "send"
    /\ said' = [said EXCEPT ![c].pc = "receive", ![c].text = None]
    /\ UNCHANGED <<today, sid, ctx, memory, lastText, inCtx, lastResult, aiCalls, dbCalls, clock>>

NextTurns ==
    \/ \E c \in Connections, text \in TurnTexts : Receive(c, text)
    \/ \E c \in Connections : Enter(c)
    \/ \E c \in Connections, ai \in AIOutcomes : Proceed(c, ai)
    \/ \E c \in Connections : Send(c)

\* the event loop resumes a task that is ready when no task keeps it, and a
\* result that is sent is sent in the end; nothing makes the LLM answer, nor
\* a client send a message
SpecTurns ==
    /\ InitTurns
    /\ [][NextTurns]_vars
    /\ WF_vars(\E c \in Connections : Enter(c))
    /\ WF_vars(\E c \in Connections : Send(c))

(***************************************************************************)
(* C22  A turn always ends with a response, even when the LLM never        *)
(* answers: no turn waits for the answer of the AI call forever.           *)
(***************************************************************************)
C22_TurnTerminates ==
    \A c \in Connections : (Task(c).pc = "awaiting") ~> (Task(c).pc # "awaiting")

(***************************************************************************)
(* C27  Two turns of one session never run their read-then-write sections  *)
(* at the same time: while a turn is between its read of the context and   *)
(* the memory and its write of the result, no other turn of the session is *)
(* in its section, and the memory is still the one the turn has read.      *)
(***************************************************************************)
C27_Serialized ==
    \A c \in Connections :
        InSection(c) =>
            /\ Task(c).read = memory
            /\ \A d \in Connections \ {c} : ~InSection(d)

\* a turn is in its section while a message of the same session, received
\* by the other connection, waits for the event loop, and an earlier turn
\* has written to the memory of the session
C27_Witness ==
    /\ clock >= 1
    /\ memory # EmptyMemory
    /\ Task(1).pc = "running"
    /\ Task(2).pc = "ready"

\* the fields of the response of a turn
ResultFields == {"response", "context", "session_id"}

(***************************************************************************)
(* C28  Every result process_message returns, whatever the message, has    *)
(* the three fields response, context and session_id.                      *)
(***************************************************************************)
C28_ResultFields ==
    lastText # None /\ ~Crashed => ResultFields \subseteq DOMAIN lastResult

(***************************************************************************)
(* get_previous_intent on the histories update_memory_with_conversation    *)
(* builds: turn after turn is recorded with the context it ended in, and   *)
(* the previous intent is asked for with a lookback of 1 to MaxLookback.   *)
(***************************************************************************)
MaxRecorded == 5

MaxLookback == 5

\* the contexts turns end in: of a knowledge turn, of appointment turns
RecordedContexts ==
    {EmptyDict,
     [intent |-> "schedule_appointment", phase |-> "asking_person"],
     [intent |-> "cancel_appointment", phase |-> "asking_person_cancel"]}

\* a turn of the session is recorded
Record(context) ==
    /\ clock < MaxRecorded
    /\ clock' = clock + 1
    /\ memory' = update_memory_with_conversation(memory, sid, "ok", "What else?", context, today,
                                                 Timestamp(today, clock))
    /\ lastText' = "ok"
    /\ inCtx' = context
    /\ lastResult' = NoResult
    /\ UNCHANGED <<today, sid, ctx, aiCalls, dbCalls, said>>

\* get_previous_intent(session_id, lookback_n) is called
Recall(lookback_n) ==
    /\ lastResult' = [previous_intent |-> get_previous_intent(memory, sid, lookback_n),
                      lookback_n |-> lookback_n]
    /\ UNCHANGED <<today, sid, ctx, memory, lastText, inCtx, aiCalls, dbCalls, clock, said>>

NextRecall ==
    \/ \E context \in RecordedContexts : Record(context)
    \/ \E lookback_n \in 1..MaxLookback : Recall(lookback_n)

SpecRecall == InitQuery /\ [][NextRecall]_vars

\* the turns recorded for the session, oldest first
Recorded == GetOr(memory.conversations, sid, <<>>)

\* the positions of the last n recorded turns whose context has an intent
IntentTurns(n) ==
    {i \in 1..Len(Recorded) : i > Len(Recorded) - n /\ "intent" \in DOMAIN Recorded[i].context}

(***************************************************************************)
(* C29  get_previous_intent(session_id, lookback_n) returns the intent of  *)
(* the most recent of the last lookback_n recorded turns of the session    *)
(* whose context has an intent, and null when none of them has one or the  *)
(* session has no history.                                                 *)
(***************************************************************************)
C29_PreviousIntent ==
    "previous_intent" \in DOMAIN lastResult =>
        LET turns == IntentTurns(lastResult.lookback_n)
        IN  lastResult.previous_intent =
                IF turns = {} THEN None
                ELSE Recorded[CHOOSE i \in turns : \A j \in turns : j <= i].context["intent"]

(***************************************************************************)
(* _extract_time on the clock times of the 12-hour clock: an hour from 0   *)
(* to MaxHour, with or without a minute, and am or pm.                     *)
(***************************************************************************)
MaxHour == 13

MaxMinute == 59

\* stands for the minute of a text that gives none
NoMinute == -1

\* the text of a clock time: "3:05 pm", or "3 pm" when no minute is given
ClockText(hour, minute, period) ==
    ToString(hour) \o (IF minute = NoMinute THEN "" ELSE ":" \o Pad2(minute)) \o " " \o period

InitTime ==
    /\ today = BaseDay
    /\ sid \in Sessions
    /\ ctx = EmptyDict
    /\ memory = EmptyMemory
    /\ \E hour \in 0..MaxHour, minute \in NoMinute..MaxMinute, period \in {"am", "pm"} :
           /\ inCtx = [hour |-> hour, minute |-> minute, period |-> period]
           /\ lastText = ClockText(hour, minute, period)
    /\ lastResult = NoResult
    /\ aiCalls = <<>>
    /\ dbCalls = <<>>
    /\ clock = 0
    /\ said = <<>>

\* the extractor is asked for the time of the text
ExtractTime ==
    /\ clock = 0
    /\ clock' = 1
    /\ lastResult' = [time |-> _extract_time(lastText)]
    /\ UNCHANGED <<today, sid, ctx, memory, lastText, inCtx, aiCalls, dbCalls, said>>

NextTime == ExtractTime

SpecTime == InitTime /\ [][NextTime]_vars

\* the hour of the 24-hour clock
Hour24(hour, period) ==
    IF period = "pm" THEN (IF hour = 12 THEN 12 ELSE hour + 12)
    ELSE (IF hour = 12 THEN 0 ELSE hour)

\* the minute of the text, 0 when it has none
MinuteOf(minute) == IF minute = NoMinute THEN 0 ELSE minute

(***************************************************************************)
(* C30  For every hour 1..12, minute 0..59 and marker am or pm,            *)
(* _extract_time returns the zero-padded HH:MM of the 24-hour clock: 12 am *)
(* is hour 00, h pm below 12 is h + 12, 12 pm is 12, h am below 12 is h;   *)
(* for an hour outside 1..12 it returns no time.                           *)
(***************************************************************************)
C30_TwelveHourClock ==
    "time" \in DOMAIN lastResult =>
        lastResult.time =
            IF inCtx.hour \in 1..12
            THEN Pad2(Hour24(inCtx.hour, inCtx.period)) \o ":" \o Pad2(MinuteOf(inCtx.minute))
            ELSE None

(***************************************************************************)
(* parse_relative_date on the weekday expressions and on the offsets from  *)
(* a base date, with today on each day of a week.                          *)
(***************************************************************************)
\* datetime.now() falls on one of NumDateDays consecutive days from BaseDay
NumDateDays == 7

DateDays == {AddDays(BaseDay, k) : k \in 0..(NumDateDays - 1)}

\* the largest N of "N units from <base>"
MaxOffset == 3

WeekdayKinds == {"next", "this", "bare"}

OffsetUnits == {"day", "week", "month"}

OffsetBases == {"now", "today", "tomorrow", "june 11"}

\* "next Monday", "this Monday", "Monday"
WeekdayText(kind, w) ==
    (IF kind = "bare" THEN "" ELSE kind \o " ") \o Capitalize(days_of_week[w + 1])

\* "1 day from today", "3 weeks from june 11"
OffsetText(number, unit, base) ==
    ToString(number) \o " " \o unit \o (IF number = 1 THEN "" ELSE "s") \o " from " \o base

InitDates ==
    /\ today \in DateDays
    /\ sid \in Sessions
    /\ ctx = EmptyDict
    /\ memory = EmptyMemory
    /\ lastText = ""
    /\ inCtx = EmptyDict
    /\ lastResult = NoResult
    /\ aiCalls = <<>>
    /\ dbCalls = <<>>
    /\ clock = 0
    /\ said = <<>>

\* parse_relative_date is asked for the date of a weekday expression
ResolveWeekday(kind, w) ==
    /\ clock = 0
    /\ clock' = 1
    /\ lastText' = WeekdayText(kind, w)
    /\ inCtx' = [kind |-> kind, weekday |-> w]
    /\ lastResult' = [relative_date |-> parse_relative_date(lastText', today)]
    /\ UNCHANGED <<today, sid, ctx, memory, aiCalls, dbCalls, said>>

\* parse_relative_date is asked for the date N units from a base
ResolveOffset(number, unit, base) ==
    /\ clock = 0
    /\ clock' = 1
    /\ lastText' = OffsetText(number, unit, base)
    /\ inCtx' = [kind |-> "from", number |-> number, unit |-> unit, base |-> base]
    /\ lastResult' = [relative_date |-> parse_relative_date(lastText', today)]
    /\ UNCHANGED <<today, sid, ctx, memory, aiCalls, dbCalls, said>>

NextDates ==
    \/ \E kind \in WeekdayKinds, w \in 0..6 : ResolveWeekday(kind, w)
    \/ \E number \in 1..MaxOffset, unit \in OffsetUnits, base \in OffsetBases :
           ResolveOffset(number, unit, base)

SpecDates == InitDates /\ [][NextDates]_vars

\* a date was resolved for an expression of this kind
Resolved(kinds) == "relative_date" \in DOMAIN lastResult /\ inCtx.kind \in kinds

\* days from today to the date resolved
DaysAhead == DayNum(lastResult.relative_date) - DayNum(today)

(***************************************************************************)
(* C31  "next <weekday>": for every weekday of today t and every weekday   *)
(* w asked for, the date resolved is today + ((w - t) mod 7) days, 7 days  *)
(* when that offset is 0; it is 1..7 days ahead and falls on weekday w.    *)
(***************************************************************************)
C31_NextWeekday ==
    Resolved({"next"}) =>
        LET offset == (inCtx.weekday - Weekday(today)) % 7
        IN  /\ lastResult.relative_date # NoDate
            /\ DaysAhead = (IF offset = 0 THEN 7 ELSE offset)
            /\ DaysAhead \in 1..7
            /\ Weekday(lastResult.relative_date) = inCtx.weekday

\* "next <weekday>" was asked on that very weekday, and on another one
C31_Witness ==
    /\ Resolved({"next"})
    /\ inCtx.weekday = Weekday(today)
    /\ DaysAhead = 7
    /\ lastText = "next Wednesday"

(***************************************************************************)
(* C32  "this <weekday>" and a bare weekday name: for every weekday of     *)
(* today t and every weekday w asked for, the date resolved is today +     *)
(* ((w - t) mod 7) days: today when w = t, otherwise the nearest future    *)
(* occurrence, 0..6 days ahead and on weekday w; when w differs from t a   *)
(* bare weekday gives the date "next <weekday>" gives.                     *)
(***************************************************************************)
C32_ThisWeekday ==
    Resolved({"this", "bare"}) =>
        /\ lastResult.relative_date # NoDate
        /\ DaysAhead = (inCtx.weekday - Weekday(today)) % 7
        /\ DaysAhead \in 0..6
        /\ (inCtx.weekday = Weekday(today) => lastResult.relative_date = today)
        /\ Weekday(lastResult.relative_date) = inCtx.weekday
        /\ (inCtx.kind = "bare" /\ inCtx.weekday # Weekday(today)) =>
               lastResult.relative_date =
                   parse_relative_date(WeekdayText("next", inCtx.weekday), today)

\* a bare weekday was asked on another weekday, after "this <weekday>" on
\* that very weekday would have given today
C32_Witness ==
    /\ Resolved({"bare"})
    /\ inCtx.weekday # Weekday(today)
    /\ lastText = "Monday"
    /\ DaysAhead = 5
    /\ parse_relative_date("this Wednesday", today) = today

\* the date a base expression of OffsetBases stands for
BaseDate(base) ==
    IF base \in {"now", "today"} THEN today
    ELSE IF base = "tomorrow" THEN AddDays(today, 1)
    ELSE [y |-> today.y, m |-> 6, d |-> 11]

(***************************************************************************)
(* C34  "N day(s)/week(s)/month(s) from <base>" resolves to the base date  *)
(* plus N units for every base expression, the literal bases today and     *)
(* tomorrow included: "3 days from today" is today + 3 days.               *)
(***************************************************************************)
C34_OffsetFromBase ==
    Resolved({"from"}) =>
        lastResult.relative_date =
            AddOffset(BaseDate(inCtx.base), [number |-> inCtx.number, unit |-> inCtx.unit])

\* YYYY-MM-DD
IsStorageDate(v) ==
    /\ Len(v) = 10
    /\ DigitsAt(v, 1, 4) /\ Char(v, 5) = "-" /\ DigitsAt(v, 6, 2)
    /\ Char(v, 8) = "-" /\ DigitsAt(v, 9, 2)

\* HH:MM of the 24-hour clock
IsStorageTime(v) ==
    /\ Len(v) = 5
    /\ DigitsAt(v, 1, 2) /\ Char(v, 3) = ":" /\ DigitsAt(v, 4, 2)
    /\ ToInt(Sub(v, 1, 2)) <= 23 /\ ToInt(Sub(v, 4, 5)) <= 59

(***************************************************************************)
(* C33  Whatever extraction path fills them, the date of the context is    *)
(* held as YYYY-MM-DD and its time as 24-hour HH:MM, so the values present *)
(* when the phase reaches completed are in the form persistence expects.   *)
(***************************************************************************)
C33_StorageForms ==
    (~Crashed /\ "context" \in DOMAIN lastResult) =>
        /\ Truthy(Out("date")) => IsStorageDate(Out("date"))
        /\ Truthy(Out("time")) => IsStorageTime(Out("time"))

(***************************************************************************)
(* C35  Completion requires all slots: in every context returned with      *)
(* phase completed, in the schedule track and in the cancel track, also    *)
(* when confirming_cancel was entered through the shortcut without a time, *)
(* person, date and time are all held.                                     *)
(***************************************************************************)
C35_CompletedHasSlots ==
    (Returned /\ Out("phase") = "completed") =>
        Truthy(Out("person")) /\ Truthy(Out("date")) /\ Truthy(Out("time"))

\* the slot each asking phase of the schedule track asks for
ScheduleAsks == [asking_person |-> "person", asking_date |-> "date", asking_time |-> "time"]

(***************************************************************************)
(* C36  The schedule track never asks for a slot that is already filled:   *)
(* after any turn, if the phase returned is asking_person, asking_date or  *)
(* asking_time, the slot it asks for is empty in the context returned.     *)
(***************************************************************************)
C36_AsksOnlyEmptySlot ==
    (Returned /\ Out("intent") = "schedule_appointment" /\ Out("phase") \in DOMAIN ScheduleAsks) =>
        ~Truthy(Out(ScheduleAsks[Out("phase")]))

\* the replies that reject what the confirmation step proposes
RejectingReplies ==
    [confirming |-> {"no", "incorrect", "no, that's not right"},
     confirming_cancel |-> {"no", "no please don't"}]

(***************************************************************************)
(* C37  A rejecting reply at the confirmation step never finalizes the     *)
(* action: at confirming a reply such as "incorrect" or "no, that's not    *)
(* right", and at confirming_cancel a reply such as "no please don't",     *)
(* does not move the phase to completed.                                   *)
(***************************************************************************)
C37_RejectionDoesNotFinalize ==
    (/\ lastText # None /\ Returned
     /\ In("phase") \in DOMAIN RejectingReplies
     /\ lastText \in RejectingReplies[In("phase")]) =>
        Out("phase") # "completed"

\* the conversation history of the connection's session
Conversation ==
    IF sid \in DOMAIN memory.conversations THEN memory.conversations[sid] ELSE <<>>

\* the records written during the last turn: they bear its timestamp
RecordsOfLastTurn ==
    {i \in 1..Len(Conversation) : Conversation[i].timestamp = Timestamp(today, clock - 1)}

(***************************************************************************)
(* C38  Turn recording: every call of process_message with a non-empty     *)
(* utterance and a session id appends exactly one turn record (user text,  *)
(* system text, timestamp, context snapshot) to the history of that        *)
(* session, at its end, and writes to the history of no other session.     *)
(***************************************************************************)
C38_TurnRecorded ==
    (lastText \notin {None, ""} /\ sid # None) =>
        /\ Cardinality(RecordsOfLastTurn) = 1
        /\ Len(Conversation) \in RecordsOfLastTurn
        /\ Conversation[Len(Conversation)].user = lastText
        /\ DOMAIN memory.conversations \subseteq {sid}

(***************************************************************************)
(* database.AppointmentDatabase.connect_with_retry: the retry loop, one    *)
(* pass at a time.  What mysql.connector.connect does in a pass is an      *)
(* input: it raises Error, or returns a connection that reports it is      *)
(* connected, or one that reports it is not.                               *)
(***************************************************************************)
\* the largest max_retries a caller passes (the default is 3)
MaxRetries == 3

\* passes of the loop explored in one call
MaxAttempts == 5

ConnectOutcomes == {"raises", "connected", "not_connected"}

\* connect_with_retry(max_retries) is entered: retries = 0
InitConnect ==
    /\ today = BaseDay
    /\ sid = None
    /\ \E max_retries \in 0..MaxRetries :
           inCtx = [max_retries |-> max_retries, retries |-> 0, pc |-> "while"]
    /\ ctx = [connection |-> None]
    /\ memory = EmptyMemory
    /\ lastText = None
    /\ lastResult = NoResult
    /\ aiCalls = <<>>
    /\ dbCalls = <<>>
    /\ clock = 0
    /\ said = <<>>

\* retries += 1 in the except branch only
RetriesAfter(retries, outcome) == IF outcome = "raises" THEN retries + 1 ELSE retries

\* one pass of the while loop: connect, then return True, or count the error
\* and sleep, or go round again
Attempt(outcome) ==
    LET retries == RetriesAfter(inCtx.retries, outcome)
    IN  /\ inCtx.pc = "while"
        /\ inCtx.retries < inCtx.max_retries
        /\ Len(dbCalls) < MaxAttempts
        /\ dbCalls' = Append(dbCalls, outcome)
        /\ clock' = clock + (IF outcome = "raises" /\ retries < inCtx.max_retries
                             THEN 2 * retries ELSE 0)
        /\ ctx' = [connection |-> IF outcome = "raises"
                                  THEN (IF retries < inCtx.max_retries THEN ctx.connection ELSE None)
                                  ELSE outcome]
        /\ inCtx' = [inCtx EXCEPT !.retries = retries,
                                  !.pc = IF outcome = "connected" THEN "returned" ELSE "while"]
        /\ lastResult' = IF outcome = "connected" THEN [returned |-> TRUE] ELSE lastResult
        /\ UNCHANGED <<today, sid, memory, lastText, aiCalls, said>>

\* the loop condition fails: return False
GiveUp ==
    /\ inCtx.pc = "while"
    /\ inCtx.retries >= inCtx.max_retries
    /\ inCtx' = [inCtx EXCEPT !.pc = "returned"]
    /\ lastResult' = [returned |-> FALSE]
    /\ UNCHANGED <<today, sid, ctx, memory, lastText, aiCalls, dbCalls, clock, said>>

NextConnect ==
    \/ \E outcome \in ConnectOutcomes : Attempt(outcome)
    \/ GiveUp

SpecConnect == InitConnect /\ [][NextConnect]_vars

\* no attempt so far gave a connected connection
NoneConnected == \A i \in 1..Len(dbCalls) : dbCalls[i] # "connected"

(***************************************************************************)
(* C39  connect_with_retry(max_retries) makes at most max_retries          *)
(* connection attempts: it returns True as soon as an attempt yields a     *)
(* connected connection, and False once max_retries attempts have not,     *)
(* also when an attempt raises no error but the connection reports it is   *)
(* not connected.                                                          *)
(***************************************************************************)
C39_BoundedAttempts ==
    /\ Len(dbCalls) <= inCtx.max_retries
    /\ (dbCalls # <<>> /\ dbCalls[Len(dbCalls)] = "connected") =>
           inCtx.pc = "returned" /\ lastResult = [returned |-> TRUE]
    /\ (inCtx.pc = "returned" /\ lastResult = [returned |-> FALSE]) =>
           Len(dbCalls) = inCtx.max_retries /\ NoneConnected

====
